---- MODULE Spec2Model ----
(***************************************************************************)
(* Chart Session Engine of tvAPI_interface                                 *)
(* (src/backend/external/tv_extractor.py): the frame codec, the reader     *)
(* loop, the update interpreter and the subscriber dispatch.               *)
(*                                                                         *)
(* Text is modelled character by character: a Python str is a sequence of  *)
(* characters, an ASCII character is the one-character string, a non-ASCII *)
(* character is the token "U+<hex code point>".  JSON values are tagged    *)
(* records [t |-> tag, v |-> value] so that the isinstance tests of the    *)
(* code can be evaluated.                                                  *)
(***************************************************************************)
EXTENDS Integers, Sequences, FiniteSets, TLC

\* ------------------------------------------------------------------ text

\* A string literal as a sequence of one-character strings.
Str(s) == [i \in 1..Len(s) |-> SubSeq(s, i, i)]

Digits == <<"0", "1", "2", "3", "4", "5", "6", "7", "8", "9">>

HexDigits == Digits \o <<"a", "b", "c", "d", "e", "f">>

DigitSet == {Digits[i] : i \in 1..10}

\* The non-ASCII (and control) characters of the model with their code points.
CodePoints == <<[c |-> "U+000A", n |-> 10], [c |-> "U+00E9", n |-> 233],
                [c |-> "U+20AC", n |-> 8364], [c |-> "U+1F600", n |-> 128512]>>

SpecialChars == {CodePoints[i].c : i \in DOMAIN CodePoints}

IsAsciiPrintable(c) == c \notin SpecialChars

CodePoint(c) == CodePoints[CHOOSE i \in DOMAIN CodePoints : CodePoints[i].c = c].n

HasChar(n) == \E i \in DOMAIN CodePoints : CodePoints[i].n = n

CharOf(n) == CodePoints[CHOOSE i \in DOMAIN CodePoints : CodePoints[i].n = n].c

\* Number of bytes of one character in UTF-8.
Utf8Len(c) ==
    IF IsAsciiPrintable(c) THEN 1
    ELSE LET n == CodePoint(c)
         IN IF n < 128 THEN 1 ELSE IF n < 2048 THEN 2 ELSE IF n < 65536 THEN 3 ELSE 4

\* Bytes of s[lo..hi] (halving keeps the recursion shallow).
RECURSIVE SumLens(_, _, _)
SumLens(s, lo, hi) ==
    IF lo > hi THEN 0
    ELSE IF lo = hi THEN Utf8Len(s[lo])
    ELSE LET mid == (lo + hi) \div 2 IN SumLens(s, lo, mid) + SumLens(s, mid + 1, hi)

\* len(st.encode("utf-8"))
Utf8ByteLen(s) == SumLens(s, 1, Len(s))

\* "".join(ss)
RECURSIVE Concat(_)
Concat(ss) ==
    IF ss = <<>> THEN <<>>
    ELSE IF Len(ss) = 1 THEN ss[1]
    ELSE LET h == Len(ss) \div 2
         IN Concat(SubSeq(ss, 1, h)) \o Concat(SubSeq(ss, h + 1, Len(ss)))

\* sep.join(ss)
RECURSIVE Join(_, _)
Join(ss, sep) ==
    IF ss = <<>> THEN <<>>
    ELSE IF Len(ss) = 1 THEN ss[1]
    ELSE ss[1] \o sep \o Join(Tail(ss), sep)

\* str(n) for n >= 0
RECURSIVE DecStr(_)
DecStr(n) == IF n < 10 THEN <<Digits[n + 1]>> ELSE DecStr(n \div 10) \o <<Digits[(n % 10) + 1]>>

IntStr(n) == IF n < 0 THEN <<"-">> \o DecStr(-n) ELSE DecStr(n)

DigitVal(c) == (CHOOSE i \in 1..10 : Digits[i] = c) - 1

RECURSIVE DecVal(_)
DecVal(s) == IF s = <<>> THEN 0 ELSE DecVal(SubSeq(s, 1, Len(s) - 1)) * 10 + DigitVal(s[Len(s)])

\* '{:04x}'.format(n)
Hex4(n) == <<HexDigits[((n \div 4096) % 16) + 1], HexDigits[((n \div 256) % 16) + 1],
             HexDigits[((n \div 16) % 16) + 1], HexDigits[(n % 16) + 1]>>

StartsWith(s, pre) == Len(s) >= Len(pre) /\ SubSeq(s, 1, Len(pre)) = pre

\* ------------------------------------------------------------ JSON values

JStr(s) == [t |-> "str", v |-> s]

JInt(n) == [t |-> "int", v |-> n]

JArr(a) == [t |-> "arr", v |-> a]

JObj(pairs) == [t |-> "obj", v |-> pairs]

JNull == [t |-> "null"]

JBool(b) == [t |-> "bool", v |-> b]

Pair(k, val) == [k |-> k, v |-> val]

IsDict(x) == x.t = "obj"

\* key in d
DictHas(d, k) == \E i \in DOMAIN d : d[i].k = k

\* d[key]
DictGet(d, k) == d[CHOOSE i \in DOMAIN d : d[i].k = k].v

\* d[key] = val: a present key keeps its place, a new key goes last.
DictSet(d, k, val) ==
    IF DictHas(d, k)
    THEN [i \in DOMAIN d |-> IF d[i].k = k THEN Pair(k, val) ELSE d[i]]
    ELSE Append(d, Pair(k, val))

\* d.pop(key, None)
DictPop(d, k) == SelectSeq(d, LAMBDA e : e.k # k)

\* list(d.values())
DictValues(d) == [i \in DOMAIN d |-> d[i].v]

DictKeys(d) == [i \in DOMAIN d |-> d[i].k]

\* ------------------------------------------------------------ json.dumps

\* json.dumps with ensure_ascii=False: the quote, the backslash and the newline are
\* escaped, every other character is written as it is.
JsonEscapeCharRaw(c) ==
    IF c = "\"" THEN <<"\\", "\"">>
    ELSE IF c = "\\" THEN <<"\\", "\\">>
    ELSE IF IsAsciiPrintable(c) THEN <<c>>
    ELSE IF CodePoint(c) = 10 THEN <<"\\", "n">>
    ELSE <<c>>

\* One character of a str as json.dumps writes it (ensure_ascii=True).
JsonEscapeChar(c) ==
    IF c = "\"" THEN <<"\\", "\"">>
    ELSE IF c = "\\" THEN <<"\\", "\\">>
    ELSE IF IsAsciiPrintable(c) THEN <<c>>
    ELSE LET n == CodePoint(c)
         IN IF n = 10 THEN <<"\\", "n">>
            ELSE IF n < 65536 THEN <<"\\", "u">> \o Hex4(n)
            ELSE LET m == n - 65536
                 IN <<"\\", "u">> \o Hex4(55296 + (m \div 1024))
                    \o <<"\\", "u">> \o Hex4(56320 + (m % 1024))

JsonDumpsStr(s) == <<"\"">> \o Concat([i \in DOMAIN s |-> JsonEscapeChar(s[i])]) \o <<"\"">>

\* The separators of json.dumps: ", " between items and ": " after a key.
ItemSep == <<",", " ">>

KeySep == <<":", " ">>

RECURSIVE JsonDumps(_)
JsonDumps(x) ==
    CASE x.t = "str" -> JsonDumpsStr(x.v)
      [] x.t = "int" -> IntStr(x.v)
      [] x.t = "null" -> Str("null")
      [] x.t = "bool" -> IF x.v THEN Str("true") ELSE Str("false")
      [] x.t = "arr" -> <<"[">> \o Join([i \in DOMAIN x.v |-> JsonDumps(x.v[i])], ItemSep) \o <<"]">>
      [] x.t = "obj" ->
            <<"{">> \o Join([i \in DOMAIN x.v |->
                               JsonDumpsStr(x.v[i].k) \o KeySep \o JsonDumps(x.v[i].v)], ItemSep)
            \o <<"}">>

\* --------------------------------------------------------------- encoding

\* A header that counts the two quotes of a string parameter twice.
prepend_header_plus2(st) == Str("~m~") \o DecStr(Len(st) + 2) \o Str("~m~") \o st

\* prepend_header(st): the header carries len(st), the number of characters.
prepend_header(st) == Str("~m~") \o DecStr(Len(st)) \o Str("~m~") \o st

\* The dict {"m": m, "p": p} that construct_message serialises.
MsgDict(m, p) == JObj(<<Pair(Str("m"), m), Pair(Str("p"), p)>>)

construct_message(m, p) == prepend_header(JsonDumps(MsgDict(m, p)))

\* ----------------------------------------------------------------- inputs

\* generate_session("cs_"): one of the ids random.choices can draw.
SessionId == Str("cs_a1b2c3d4e5f6")

SessionIds == {SessionId, Str("cs_zz9zz9zz9zz9")}

\* The custom_inputs a caller passes to create_study: none, a new value for the input
\* in_0 of the metadata, a key the metadata does not have.
CustomInputs ==
    {JNull, JObj(<<Pair(Str("in_0"), JInt(99))>>), JObj(<<Pair(Str("zz"), JInt(1))>>)}

\* The token of __init__: its default.
Tokens == {Str("unauthorized_user_token")}

\* The metadata get_indicator_metadata returns for a script with one plot and one input.
Meta1 ==
    JObj(<<Pair(Str("pineId"), JStr(Str("PUB;1"))),
           Pair(Str("pineVersion"), JStr(Str("1.0"))),
           Pair(Str("description"), JStr(Str("RSI"))),
           Pair(Str("inputs"),
                JObj(<<Pair(Str("in_0"),
                            JObj(<<Pair(Str("name"), JStr(Str("len"))),
                                   Pair(Str("type"), JStr(Str("integer"))),
                                   Pair(Str("value"), JInt(14)),
                                   Pair(Str("isFake"), JBool(FALSE))>>))>>)),
           Pair(Str("plots"), JObj(<<Pair(Str("plot_0"), JStr(Str("RSI")))>>)),
           Pair(Str("script"), JStr(Str("il"))),
           Pair(Str("type"), JStr(Str("study")))>>)

\* Server frames: a heartbeat ~h~<n>, or the JSON text of a message.
Hb(n) == [kind |-> "hb", payload |-> Str("~h~") \o DecStr(n)]

Framed(msg) == [kind |-> "json", msg |-> msg, payload |-> JsonDumps(msg)]

Json(m, p) == Framed(MsgDict(JStr(Str(m)), p))

\* The string one recv returns for the frames fs: each framed with its length.
Raw(fs) == Concat([i \in DOMAIN fs |-> prepend_header(fs[i].payload)])

Entry(i, v) == JObj(<<Pair(Str("i"), JInt(i)), Pair(Str("v"), JArr(v))>>)

Bar(i, t, c) == Entry(i, <<JInt(t), JInt(c)>>)

\* A du / timescale_update message with the data mapping d.
Update(m, d) == Json(m, JArr(<<JStr(SessionId), JObj(d)>>))

Prices(entries) == Pair(Str("$prices"), JObj(<<Pair(Str("s"), JArr(entries))>>))

\* The text of ns.d for the graphicsCmds cmds.
NsD(cmds) == JStr(JsonDumps(JObj(<<Pair(Str("graphicsCmds"), JObj(cmds))>>)))

Erase(action, fields) == JObj(<<Pair(Str("action"), JStr(Str(action)))>> \o fields)

EraseCmd(erases) == Pair(Str("erase"), JArr(erases))

CreateCmd(draw_type, items) ==
    Pair(Str("create"),
         JObj(<<Pair(Str(draw_type), JArr(<<JObj(<<Pair(Str("data"), JArr(items))>>)>>))>>))

Label(id, x) ==
    JObj(<<Pair(Str("id"), JStr(Str(id))), Pair(Str("x"), x), Pair(Str("y"), JInt(17)),
           Pair(Str("yl"), JStr(Str("ab"))), Pair(Str("t"), JStr(Str("hi"))),
           Pair(Str("st"), JStr(Str("flg")))>>)

Study(key, fields) == Pair(Str(key), JObj(fields))

Points(entries) == Pair(Str("st"), JArr(entries))

Ns(fields) == Pair(Str("ns"), JObj(fields))

Indexes(ns) == Pair(Str("indexes"), JArr([i \in DOMAIN ns |-> JInt(ns[i])]))

NoChange == Pair(Str("indexes"), JStr(Str("nochange")))

D(cmds) == Pair(Str("d"), NsD(cmds))

\* The server frames of the session model.
F_bar == Update("du", <<Prices(<<Bar(0, 1, 10)>>)>>)

F_bars == Update("timescale_update", <<Prices(<<Bar(0, 1, 10), Bar(1, 2, 20)>>)>>)

F_point == Update("du", <<Study("st1", <<Points(<<Bar(0, 1, 72)>>)>>)>>)

F_both == Update("du", <<Study("st1", <<Points(<<Bar(0, 2, 55)>>)>>),
                         Prices(<<Bar(0, 2, 20)>>),
                         Study("st2", <<Points(<<Bar(0, 2, 7), Bar(1, 3, 8)>>)>>)>>)

\* A "$prices" entry without "v" before a well-formed study.
F_noV == Update("du", <<Prices(<<Bar(0, 3, 30), JObj(<<Pair(Str("i"), JInt(1))>>)>>),
                        Study("st1", <<Points(<<Bar(0, 3, 60)>>)>>)>>)

\* Graphics of st1 and, under a later key of the same message, a new index array.
F_gfx2 == Update("du", <<Study("st1", <<Ns(<<D(<<CreateCmd("dwglabels", <<Label("L1", JInt(0))>>)>>),
                                            Indexes(<<1000, 2000>>)>>)>>),
                         Study("st2", <<Ns(<<Indexes(<<3000, 4000>>)>>)>>)>>)

F_gfx == Update("du", <<Study("st1", <<Ns(<<D(<<CreateCmd("dwglabels", <<Label("L1", JInt(1))>>)>>),
                                           Indexes(<<1000, 2000>>)>>)>>)>>)

F_nochange == Update("du", <<Study("st1", <<Ns(<<NoChange, Pair(Str("d"), JStr(Str("{}")))>>)>>)>>)

F_study_error == Json("study_error", JArr(<<JStr(SessionId), JStr(Str("st1"))>>))

\* A study_error with the study id at p[1] and the reason at p[3].
F_study_error4 == Json("study_error", JArr(<<JStr(SessionId), JStr(Str("st1")), JStr(Str("t1")),
                                             JStr(Str("bad input"))>>))

F_critical == Json("critical_error", JArr(<<JStr(SessionId), JStr(Str("bad"))>>))

F_other == Json("series_loading", JArr(<<JStr(SessionId)>>))

\* What one recv can return: the frames the server put into it.
Inbound ==
    {<<Hb(42)>>, <<F_bar>>, <<F_bars>>, <<F_point>>, <<F_both>>, <<F_noV>>, <<F_gfx2>>,
     <<F_gfx>>, <<F_nochange>>, <<F_study_error4>>, <<F_critical>>, <<F_other>>,
     <<Hb(1), Hb(2)>>, <<F_bar, Hb(7)>>, <<F_study_error, Hb(3)>>, <<Hb(5), F_point>>}

\* The frames of the interpreter model: graphics commands of one study.
G_create1 == Update("du", <<Study("st1", <<Ns(<<D(<<CreateCmd("dwglabels", <<Label("L1", JInt(0))>>)>>),
                                               Indexes(<<1000, 2000>>)>>)>>)>>)

G_create2 == Update("du", <<Study("st1", <<Ns(<<D(<<CreateCmd("dwglabels",
                                                     <<Label("L2", JInt(1)), Label("L3", JInt(5)),
                                                       Label("L2", JInt(0))>>)>>),
                                               NoChange>>)>>)>>)

G_line == Update("du", <<Study("st1", <<Ns(<<D(<<CreateCmd("dwglines",
                              <<JObj(<<Pair(Str("id"), JInt(7)), Pair(Str("x1"), JInt(0)),
                                       Pair(Str("x2"), JInt(1)), Pair(Str("st"), JStr(Str("sol")))>>)>>)>>)>>)>>)>>)

G_erase_type == Update("du", <<Study("st1", <<Ns(<<D(<<EraseCmd(
                              <<Erase("all", <<Pair(Str("type"), JStr(Str("dwglabels")))>>)>>)>>)>>)>>)>>)

G_erase_twice == Update("du", <<Study("st1", <<Ns(<<D(<<EraseCmd(
                              <<Erase("all", <<Pair(Str("type"), JStr(Str("dwglabels")))>>),
                                Erase("all", <<Pair(Str("type"), JStr(Str("dwglabels")))>>)>>)>>)>>)>>)>>)

G_erase_one == Update("du", <<Study("st1", <<Ns(<<D(<<EraseCmd(
                              <<Erase("one", <<Pair(Str("type"), JStr(Str("dwglabels"))),
                                               Pair(Str("id"), JStr(Str("L1")))>>)>>)>>)>>)>>)>>)

G_erase_all == Update("du", <<Study("st1", <<Ns(<<D(<<EraseCmd(<<Erase("all", <<>>)>>)>>)>>)>>)>>)

\* An erase of the type and a create of it in one message.
G_replace == Update("du", <<Study("st1", <<Ns(<<D(<<EraseCmd(
                              <<Erase("all", <<Pair(Str("type"), JStr(Str("dwglabels")))>>)>>),
                              CreateCmd("dwglabels", <<Label("L4", JInt(1))>>)>>)>>)>>)>>)

\* ns.d that is no JSON text.
G_malformed == Update("du", <<Study("st1", <<Ns(<<Pair(Str("d"), JStr(Str("{\"graphicsCmds\": ")))>>)>>)>>)

\* A create item without "id" after an erase.
G_noid == Update("du", <<Study("st1", <<Ns(<<D(<<EraseCmd(<<Erase("all", <<Pair(Str("type"), JStr(Str("dwglines")))>>)>>),
                              CreateCmd("dwglabels", <<JObj(<<Pair(Str("x"), JInt(0))>>)>>)>>)>>)>>)>>)

\* An erase of one id and a create of the same id in one message, the create listed
\* first in the text.
G_reone == Update("du", <<Study("st1", <<Ns(<<D(<<CreateCmd("dwglabels", <<Label("L2", JInt(5))>>),
                              EraseCmd(<<Erase("one", <<Pair(Str("type"), JStr(Str("dwglabels"))),
                                                        Pair(Str("id"), JStr(Str("L2")))>>)>>)>>)>>)>>)>>)

\* An erase of everything and a create in one message.
G_reall == Update("du", <<Study("st1", <<Ns(<<D(<<EraseCmd(<<Erase("all", <<>>)>>),
                              CreateCmd("dwglabels", <<Label("L5", JInt(0))>>)>>)>>)>>)>>)

GfxInbound ==
    {<<G_create1>>, <<G_create2>>, <<G_line>>, <<G_erase_type>>, <<G_erase_twice>>,
     <<G_erase_one>>, <<G_erase_all>>, <<G_replace>>, <<G_malformed>>, <<G_noid>>,
     <<G_reone>>, <<G_reall>>}

\* Metadata with two plots of one title.
Meta2 ==
    JObj(DictSet(Meta1.v, Str("plots"),
                 JObj(<<Pair(Str("plot_0"), JStr(Str("Plot"))),
                        Pair(Str("plot_1"), JStr(Str("Plot")))>>)))

\* A bar, a point of st1 with an ns.d that is no JSON text, and graphics of st2.
L_badns ==
    Update("du", <<Prices(<<Bar(0, 4, 40)>>),
                   Study("st1", <<Points(<<Bar(0, 4, 61)>>),
                                  Ns(<<Pair(Str("d"), JStr(Str("{\"graphicsCmds\": "))),
                                       Indexes(<<1000, 2000>>)>>)>>),
                   Study("st2", <<Ns(<<D(<<CreateCmd("dwglabels", <<Label("L9", JInt(0))>>)>>)>>)>>)>>)

\* Two rows of three values for st1.
L_wide ==
    Update("du", <<Study("st1", <<Points(<<Entry(0, <<JInt(5), JInt(50), JInt(51)>>),
                                           Entry(1, <<JInt(6), JInt(60), JInt(61)>>)>>)>>)>>)

\* An update that carries no bar, no point and no graphics: an empty list of
\* prices, an empty list of points, an index array.
L_quiet ==
    Update("du", <<Prices(<<>>), Study("st1", <<Points(<<>>), Ns(<<Indexes(<<5000>>)>>)>>)>>)

\* The frames of the model of one reader with its studies loaded or not.
LocalInbound ==
    {<<G_create1>>, <<G_line>>, <<G_noid>>, <<L_badns>>, <<L_wide>>, <<L_quiet>>, <<F_bar>>,
     <<F_other>>, <<F_nochange>>}

\* JSON messages of the server that carry a field "type" equal to "ping": with a
\* text as data, and without data.
J_ping == Framed(JObj(<<Pair(Str("type"), JStr(Str("ping"))), Pair(Str("data"), JStr(Str("x")))>>))

J_ping_nodata == Framed(JObj(<<Pair(Str("type"), JStr(Str("ping"))), Pair(Str("p"), JArr(<<>>))>>))

\* The frames of the model of the routing: heartbeats and JSON messages.
RouterInbound ==
    {<<Hb(42)>>, <<J_ping>>, <<J_ping_nodata>>, <<F_bar>>, <<F_other>>, <<Hb(5), F_point>>,
     <<J_ping, Hb(7)>>}

AllInbound == Inbound \cup GfxInbound \cup LocalInbound \cup RouterInbound

\* The messages of the codec model: a method and a parameter list.
CodecStrings ==
    {Str("tk"), <<>>, Str("~m~1~m~"), Str("a~m~12~m~~h~1"), Str("~h~"),
     <<"U+00E9", "U+20AC">>, <<"U+1F600", "\"">>, <<"\\", "U+000A">>}

CodecParams == {<<>>} \cup {<<JStr(a)>> : a \in CodecStrings}
               \cup {<<JStr(Str("tk")), JInt(100)>>}

CodecMethods == {Str("set_auth_token"), Str("x")}

\* The frames of the three models.
Frames == UNION {{fs[i] : i \in DOMAIN fs} : fs \in AllInbound}

\* The texts of ns.d in the message msg.
NsTexts(msg) ==
    LET data == msg.v[2].v.v[2].v
        HasD(i) == /\ data[i].v.t = "obj" /\ DictHas(data[i].v.v, Str("ns"))
                   /\ DictHas(DictGet(data[i].v.v, Str("ns")).v, Str("d"))
    IN IF Len(msg.v[2].v.v) < 2 \/ msg.v[2].v.v[2].t # "obj" THEN {}
       ELSE {DictGet(DictGet(data[i].v.v, Str("ns")).v, Str("d")).v :
                 i \in {k \in DOMAIN data : HasD(k)}}

\* The payloads of the JSON frames fs and the texts of ns.d in them.
TextsOf(fs) == {f.payload : f \in fs} \cup UNION {NsTexts(f.msg) : f \in fs}

\* The JSON texts the models hand to json.loads when nothing is cut out of a frame.
KnownTexts ==
    TextsOf({g \in Frames : g.kind = "json"})
    \cup {JsonDumps(MsgDict(JStr(m), JArr(p))) : m \in CodecMethods, p \in CodecParams}

\* ------------------------------------------------------------ json.loads

Fail == [ok |-> FALSE]

Ok(x, j) == [ok |-> TRUE, val |-> x, pos |-> j]

\* The whitespace json.loads skips (of the characters of the model).
JsonWs == {" ", "U+000A"}

\* First position at or after i that holds no whitespace.
SkipWs(s, i) == CHOOSE j \in i..(Len(s) + 1) :
                   /\ j = Len(s) + 1 \/ s[j] \notin JsonWs
                   /\ \A k \in i..(j - 1) : s[k] \in JsonWs

At(s, i) == IF i \in 1..Len(s) THEN s[i] ELSE "EOF"

UpperHex == <<"A", "B", "C", "D", "E", "F">>

IsHex(c) == \/ \E i \in 1..16 : HexDigits[i] = c
            \/ \E i \in 1..6 : UpperHex[i] = c

HexVal(c) == IF \E i \in 1..16 : HexDigits[i] = c
             THEN (CHOOSE i \in 1..16 : HexDigits[i] = c) - 1
             ELSE (CHOOSE i \in 1..6 : UpperHex[i] = c) + 9

\* The four hex digits at s[i..i+3], or -1.
Hex4At(s, i) ==
    IF i + 3 <= Len(s) /\ \A k \in i..(i + 3) : IsHex(s[k])
    THEN HexVal(s[i]) * 4096 + HexVal(s[i + 1]) * 256 + HexVal(s[i + 2]) * 16 + HexVal(s[i + 3])
    ELSE -1

UpHex(d) == IF d < 10 THEN Digits[d + 1] ELSE UpperHex[d - 9]

\* The character with code point n.
Chr(n) == IF HasChar(n) THEN CharOf(n)
          ELSE "U+" \o (IF n >= 65536 THEN UpHex((n \div 65536) % 16) ELSE "")
               \o UpHex((n \div 4096) % 16) \o UpHex((n \div 256) % 16)
               \o UpHex((n \div 16) % 16) \o UpHex(n % 16)

\* First position at or after i that holds a quote, a backslash or a control
\* character, Len(s) + 1 when there is none.
NextStop(s, i) == CHOOSE j \in i..(Len(s) + 1) :
                     /\ j = Len(s) + 1 \/ s[j] \in {"\"", "\\", "U+000A"}
                     /\ \A k \in i..(j - 1) : s[k] \notin {"\"", "\\", "U+000A"}

\* Number of backslashes in a row that end just before s[j], counted back to s[i].
BackslashRun(s, i, j) ==
    LET k == CHOOSE k \in (i - 1)..(j - 1) :
                 /\ k = i - 1 \/ s[k] # "\\"
                 /\ \A m \in (k + 1)..(j - 1) : s[m] = "\\"
    IN j - 1 - k

\* s[j] is read by the scanner as the start of an escape or as a plain character,
\* never as the character a backslash escapes.
Unescaped(s, i, j) == BackslashRun(s, i, j) % 2 = 0

\* The terminating quote of the string whose text starts at s[i]: the first quote
\* that no backslash escapes, Len(s) + 1 when there is none.
StringEnd(s, i) == CHOOSE j \in i..(Len(s) + 1) :
                      /\ j = Len(s) + 1 \/ (s[j] = "\"" /\ Unescaped(s, i, j))
                      /\ \A k \in i..(j - 1) : ~(s[k] = "\"" /\ Unescaped(s, i, k))

\* scanstring over the text b between the quotes, from b[i] on with acc decoded so
\* far, chunk by chunk: the literal run up to the next backslash, then the escape.
RECURSIVE DecodeRun(_, _, _)

\* The escape \uXXXX at b[j] with the value n; lo is the value of a second \uXXXX
\* that follows it, or -1.  A surrogate pair is one character.
Unicode(b, acc, j, n, lo) ==
    IF n < 0 THEN Fail
    ELSE IF n >= 55296 /\ n <= 56319 /\ lo >= 56320 /\ lo <= 57343
    THEN DecodeRun(b, j + 12, Append(acc, Chr(65536 + (n - 55296) * 1024 + (lo - 56320))))
    ELSE DecodeRun(b, j + 6, Append(acc, Chr(n)))

\* The escape at b[j]: e is the character after the backslash.
Escape(b, acc, j, e) ==
    CASE e \in {"\"", "\\", "/"} -> DecodeRun(b, j + 2, Append(acc, e))
      [] e = "n" -> DecodeRun(b, j + 2, Append(acc, "U+000A"))
      [] e = "u" -> Unicode(b, acc, j, Hex4At(b, j + 2),
                            IF At(b, j + 6) = "\\" /\ At(b, j + 7) = "u"
                            THEN Hex4At(b, j + 8) ELSE -1)
      [] OTHER -> Fail

\* The scan stopped at b[j]: the end of the text, an escape, or a character a JSON
\* string cannot hold.
RunStop(b, acc, j) ==
    CASE At(b, j) = "EOF" -> [ok |-> TRUE, val |-> acc]
      [] At(b, j) = "\\" -> Escape(b, acc, j, At(b, j + 1))
      [] OTHER -> Fail

RunTo(b, i, acc, j) == RunStop(b, acc \o SubSeq(b, i, j - 1), j)

DecodeRun(b, i, acc) == RunTo(b, i, acc, NextStop(b, i))

\* b[m] is a plain character at which a chunk of the scanner can start: it is
\* neither escaped nor one of the hex digits of a \u escape.
ChunkStart(b, m) ==
    /\ b[m] # "\\"
    /\ Unescaped(b, 1, m)
    /\ \A q \in 1..(m - 2) :
          q >= m - 5 => ~(b[q] = "\\" /\ b[q + 1] = "u" /\ Unescaped(b, 1, q))

\* Texts up to this length are decoded in one run.
RunLen == 12

\* The first chunk start in the second half of b, 0 when there is none.
Cut(b) ==
    IF \E m \in (Len(b) \div 2 + 1)..Len(b) : ChunkStart(b, m)
    THEN CHOOSE m \in (Len(b) \div 2 + 1)..Len(b) :
             /\ ChunkStart(b, m)
             /\ \A k \in (Len(b) \div 2 + 1)..(m - 1) : ~ChunkStart(b, k)
    ELSE 0

\* The text of two consecutive parts, when both were decoded.
Glue(l, r) == IF l.ok /\ r.ok THEN [ok |-> TRUE, val |-> l.val \o r.val] ELSE Fail

\* scanstring over the text b between the quotes: the same left-to-right scan,
\* evaluated on the two parts of b cut at the chunk start m (halving keeps the
\* recursion shallow).
RECURSIVE DecodeText(_)

DecodeBody(b, m) ==
    IF Len(b) <= RunLen \/ m = 0 THEN DecodeRun(b, 1, <<>>)
    ELSE Glue(DecodeText(SubSeq(b, 1, m - 1)), DecodeText(SubSeq(b, m, Len(b))))

DecodeText(b) == DecodeBody(b, Cut(b))

\* The string between s[i] and the terminating quote s[e], decoded to r.
Closed(r, e) == IF r.ok THEN Ok(r.val, e + 1) ELSE Fail

ScanBody(s, i, e) == IF e = Len(s) + 1 THEN Fail ELSE Closed(DecodeText(SubSeq(s, i, e - 1)), e)

\* scanstring: s[i] is the first character after the opening quote.
ScanString(s, i) == ScanBody(s, i, StringEnd(s, i))

\* End of the run of digits that starts at i (i itself when s[i] is no digit).
DigitsEnd(s, i) == CHOOSE j \in i..(Len(s) + 1) :
                      /\ j = Len(s) + 1 \/ s[j] \notin DigitSet
                      /\ \A k \in i..(j - 1) : s[k] \in DigitSet

\* The digits s[b..e-1] of a number, negated or not.
NumberOf(s, b, e, neg) ==
    IF e = b THEN Fail
    ELSE Ok(JInt(IF neg THEN -DecVal(SubSeq(s, b, e - 1)) ELSE DecVal(SubSeq(s, b, e - 1))), e)

ScanDigits(s, b, neg) ==
    NumberOf(s, b, IF At(s, b) = "0" THEN b + 1 ELSE DigitsEnd(s, b), neg)

\* The integer matched at i by -?(0|[1-9]\d*).  Fractions and exponents are outside
\* the text of the model (no input holds "." after a number).
ScanNumber(s, i) == IF At(s, i) = "-" THEN ScanDigits(s, i + 1, TRUE) ELSE ScanDigits(s, i, FALSE)

RECURSIVE ScanOnce(_, _)
RECURSIVE ScanArray(_, _, _)
RECURSIVE ScanObject(_, _, _)

\* JSONArray: after the values acc, s[j] is "]" or ",".
ArrayNext(s, acc, j) ==
    CASE At(s, j) = "]" -> Ok(JArr(acc), j + 1)
      [] At(s, j) = "," -> ScanArray(s, SkipWs(s, j + 1), acc)
      [] OTHER -> Fail

ArrayValue(s, acc, r) ==
    IF ~r.ok THEN Fail ELSE ArrayNext(s, Append(acc, r.val), SkipWs(s, r.pos))

\* JSONArray: a value starts at s[i], acc holds the values before it.
ScanArray(s, i, acc) == ArrayValue(s, acc, ScanOnce(s, i))

\* JSONObject: after the pairs d, s[e] is "}" or ",".
ObjectNext(s, d, e) ==
    CASE At(s, e) = "}" -> Ok(JObj(d), e + 1)
      [] At(s, e) = "," -> ScanObject(s, SkipWs(s, e + 1), d)
      [] OTHER -> Fail

ObjectValue(s, acc, key, r) ==
    IF ~r.ok THEN Fail ELSE ObjectNext(s, DictSet(acc, key, r.val), SkipWs(s, r.pos))

ObjectColon(s, acc, key, j) ==
    IF At(s, j) # ":" THEN Fail ELSE ObjectValue(s, acc, key, ScanOnce(s, SkipWs(s, j + 1)))

ObjectKey(s, acc, k) == IF ~k.ok THEN Fail ELSE ObjectColon(s, acc, k.val, SkipWs(s, k.pos))

\* JSONObject: s[i] is the opening quote of a key, acc holds the pairs before it.
ScanObject(s, i, acc) ==
    IF At(s, i) # "\"" THEN Fail ELSE ObjectKey(s, acc, ScanString(s, i + 1))

StringValue(r) == IF r.ok THEN Ok(JStr(r.val), r.pos) ELSE Fail

ObjectOpen(s, j) == IF At(s, j) = "}" THEN Ok(JObj(<<>>), j + 1) ELSE ScanObject(s, j, <<>>)

ArrayOpen(s, j) == IF At(s, j) = "]" THEN Ok(JArr(<<>>), j + 1) ELSE ScanArray(s, j, <<>>)

\* The literal lit at s[i] with the value val.
Literal(s, i, lit, val) ==
    IF i + Len(lit) - 1 <= Len(s) /\ SubSeq(s, i, i + Len(lit) - 1) = lit
    THEN Ok(val, i + Len(lit)) ELSE Fail

ScanAt(s, i, c) ==
    CASE c = "\"" -> StringValue(ScanString(s, i + 1))
      [] c = "{" -> ObjectOpen(s, SkipWs(s, i + 1))
      [] c = "[" -> ArrayOpen(s, SkipWs(s, i + 1))
      [] c = "n" -> Literal(s, i, Str("null"), JNull)
      [] c = "t" -> Literal(s, i, Str("true"), JBool(TRUE))
      [] c = "f" -> Literal(s, i, Str("false"), JBool(FALSE))
      [] c \in DigitSet \cup {"-"} -> ScanNumber(s, i)
      [] OTHER -> Fail

\* scan_once: the JSON value that starts at s[i].
ScanOnce(s, i) == ScanAt(s, i, At(s, i))

\* The value r with nothing but whitespace after it.
Whole(s, r) ==
    IF r.ok /\ SkipWs(s, r.pos) = Len(s) + 1 THEN [ok |-> TRUE, val |-> r.val] ELSE Fail

\* JSONDecoder.decode(s): the value, or a JSONDecodeError.
JsonDecode(s) == Whole(s, ScanOnce(s, SkipWs(s, 1)))

\* The decoder's results for the known texts, computed once.
Decoded == [s \in KnownTexts |-> JsonDecode(s)]

\* The decoder's result for s, from the table when s is a known text.
Lookup(table, s) == IF s \in DOMAIN table THEN table[s] ELSE JsonDecode(s)

\* json.loads(s)
json_loads(s) == Lookup(Decoded, s)

\* --------------------------------------------------------------- decoding

\* Length of the match of ~m~\d+~m~ that starts at s[i], 0 when there is none.
DelimAt(s, i) ==
    IF i + 2 <= Len(s) /\ SubSeq(s, i, i + 2) = Str("~m~")
    THEN LET e == DigitsEnd(s, i + 3)
         IN IF e > i + 3 /\ e + 2 <= Len(s) /\ SubSeq(s, e, e + 2) = Str("~m~")
            THEN e + 3 - i ELSE 0
    ELSE 0

\* Start of the leftmost match of ~m~\d+~m~ at or after s[i], Len(s) + 1 when there
\* is none.
NextDelim(s, i) == CHOOSE a \in i..(Len(s) + 1) :
                      /\ a = Len(s) + 1 \/ DelimAt(s, a) > 0
                      /\ \A b \in i..(a - 1) : DelimAt(s, b) = 0

RECURSIVE ReSplit(_, _)

SplitAt(s, i, j) ==
    IF j = Len(s) + 1 THEN <<SubSeq(s, i, Len(s))>>
    ELSE <<SubSeq(s, i, j - 1)>> \o ReSplit(s, j + DelimAt(s, j))

\* re.split(r"~m~\d+~m~", st) from position i on: leftmost matches, left to right.
ReSplit(s, i) == SplitAt(s, i, NextDelim(s, i))

\* The dict parse_messages returns for a heartbeat.
Ping(data) == JObj(<<Pair(Str("type"), JStr(Str("ping"))), Pair(Str("data"), JStr(data))>>)

\* What parse_messages appends for the chunk m, r being json.loads(m).
ParseChunk(m, r) ==
    IF m = <<>> THEN <<>>
    ELSE IF r.ok THEN <<r.val>>
    ELSE IF StartsWith(m, Str("~h~")) THEN <<Ping(m)>>
    ELSE <<>>

\* The entries parse_messages appends for the chunks from index i on.
RECURSIVE ParseChunks(_, _)
ParseChunks(chunks, i) ==
    IF i > Len(chunks) THEN <<>>
    ELSE ParseChunk(chunks[i], json_loads(chunks[i])) \o ParseChunks(chunks, i + 1)

parse_messages(st) ==
    IF st = <<>> THEN <<>>
    ELSE IF StartsWith(st, Str("~h~")) THEN <<Ping(st)>>
    ELSE ParseChunks(ReSplit(st, 1), 1)

\* ------------------------------------------------------- Python semantics

\* bool(x)
Truthy(x) ==
    CASE x.t = "null" -> FALSE
      [] x.t = "bool" -> x.v
      [] x.t = "int" -> x.v # 0
      [] OTHER -> x.v # <<>>

\* d.get(key): None when the key is absent.
Get(d, k) == IF DictHas(d.v, k) THEN DictGet(d.v, k) ELSE JNull

\* d.get(key, default)
GetOr(d, k, default) == IF DictHas(d.v, k) THEN DictGet(d.v, k) ELSE default

\* Usable as a dict key (a list or a dict is not).
Hashable(x) == x.t \notin {"arr", "obj"}

\* The elements `for e in x` visits; iterating a number or None is a TypeError.
Iter(x) ==
    CASE x.t = "arr" -> [ok |-> TRUE, items |-> x.v]
      [] x.t = "obj" -> [ok |-> TRUE, items |-> [i \in DOMAIN x.v |-> JStr(x.v[i].k)]]
      [] x.t = "str" -> [ok |-> TRUE, items |-> [i \in DOMAIN x.v |-> JStr(<<x.v[i]>>)]]
      [] OTHER -> [ok |-> FALSE, items |-> <<>>]

\* e["v"] is defined: e is a dict that holds the key.
HasV(e) == IsDict(e) /\ DictHas(e.v, Str("v"))

\* --------------------------------------------------- graphics translation

GRAPHIC_TRANSLATOR ==
    [extend |-> <<Pair(Str("r"), Str("right")), Pair(Str("l"), Str("left")),
                  Pair(Str("b"), Str("both")), Pair(Str("n"), Str("none"))>>,
     yLoc |-> <<Pair(Str("pr"), Str("price")), Pair(Str("ab"), Str("abovebar")),
                Pair(Str("bl"), Str("belowbar"))>>,
     labelStyle |-> <<Pair(Str("n"), Str("none")), Pair(Str("xcr"), Str("xcross")),
                      Pair(Str("cr"), Str("cross")), Pair(Str("tup"), Str("triangleup")),
                      Pair(Str("tdn"), Str("triangledown")), Pair(Str("flg"), Str("flag")),
                      Pair(Str("cir"), Str("circle")), Pair(Str("aup"), Str("arrowup")),
                      Pair(Str("adn"), Str("arrowdown")), Pair(Str("lup"), Str("label_up")),
                      Pair(Str("ldn"), Str("label_down")), Pair(Str("llf"), Str("label_left")),
                      Pair(Str("lrg"), Str("label_right")),
                      Pair(Str("llwlf"), Str("label_lower_left")),
                      Pair(Str("llwrg"), Str("label_lower_right")),
                      Pair(Str("luplf"), Str("label_upper_left")),
                      Pair(Str("luprg"), Str("label_upper_right")),
                      Pair(Str("lcn"), Str("label_center")), Pair(Str("sq"), Str("square")),
                      Pair(Str("dia"), Str("diamond"))>>,
     lineStyle |-> <<Pair(Str("sol"), Str("solid")), Pair(Str("dot"), Str("dotted")),
                     Pair(Str("dsh"), Str("dashed")), Pair(Str("al"), Str("arrow_left")),
                     Pair(Str("ar"), Str("arrow_right")), Pair(Str("ab"), Str("arrow_both"))>>,
     boxStyle |-> <<Pair(Str("sol"), Str("solid")), Pair(Str("dot"), Str("dotted")),
                    Pair(Str("dsh"), Str("dashed"))>>]

\* GRAPHIC_TRANSLATOR[field].get(code, code)
Translate(table, code) ==
    IF code.t = "str" /\ DictHas(table, code.v) THEN JStr(DictGet(table, code.v)) ELSE code

\* indexes[x] if isinstance(x, int) and x < len(indexes) else x.  len() of a number
\* or None and an index below -len(indexes) raise; an int is no key of a JSON dict;
\* a negative index counts from the end; a bool is an int.
ResolveX(x, indexes) ==
    IF x.t \notin {"int", "bool"} THEN [ok |-> TRUE, val |-> x]
    ELSE IF indexes.t \notin {"arr", "str", "obj"} THEN [ok |-> FALSE]
    ELSE LET n == Len(indexes.v)
             xv == IF x.t = "int" THEN x.v ELSE IF x.v THEN 1 ELSE 0
         IN IF ~(xv < n) THEN [ok |-> TRUE, val |-> x]
            ELSE IF indexes.t = "obj" \/ xv < -n THEN [ok |-> FALSE]
            ELSE LET i == IF xv >= 0 THEN xv + 1 ELSE n + xv + 1
                 IN [ok |-> TRUE,
                     val |-> IF indexes.t = "arr" THEN indexes.v[i] ELSE JStr(<<indexes.v[i]>>)]

\* The codes looked up in the translator must be hashable.
CodesOk(l, keys) == \A k \in keys : Hashable(Get(l, Str(k)))

ParseLabel(l, indexes) ==
    [id |-> Get(l, Str("id")),
     x |-> ResolveX(Get(l, Str("x")), indexes).val,
     y |-> Get(l, Str("y")),
     yLoc |-> Translate(GRAPHIC_TRANSLATOR.yLoc, Get(l, Str("yl"))),
     text |-> Get(l, Str("t")),
     style |-> Translate(GRAPHIC_TRANSLATOR.labelStyle, Get(l, Str("st"))),
     color |-> Get(l, Str("ci")),
     textColor |-> Get(l, Str("tci")),
     size |-> Get(l, Str("sz")),
     textAlign |-> Get(l, Str("ta")),
     toolTip |-> Get(l, Str("tt"))]

LabelOk(l, indexes) == ResolveX(Get(l, Str("x")), indexes).ok /\ CodesOk(l, {"yl", "st"})

ParseLine(l, indexes) ==
    [id |-> Get(l, Str("id")),
     x1 |-> ResolveX(Get(l, Str("x1")), indexes).val,
     y1 |-> Get(l, Str("y1")),
     x2 |-> ResolveX(Get(l, Str("x2")), indexes).val,
     y2 |-> Get(l, Str("y2")),
     extend |-> Translate(GRAPHIC_TRANSLATOR.extend, Get(l, Str("ex"))),
     style |-> Translate(GRAPHIC_TRANSLATOR.lineStyle, Get(l, Str("st"))),
     color |-> Get(l, Str("ci")),
     width |-> Get(l, Str("w"))]

LineOk(l, indexes) ==
    /\ ResolveX(Get(l, Str("x1")), indexes).ok
    /\ ResolveX(Get(l, Str("x2")), indexes).ok
    /\ CodesOk(l, {"ex", "st"})

ParseBox(b, indexes) ==
    [id |-> Get(b, Str("id")),
     x1 |-> ResolveX(Get(b, Str("x1")), indexes).val,
     y1 |-> Get(b, Str("y1")),
     x2 |-> ResolveX(Get(b, Str("x2")), indexes).val,
     y2 |-> Get(b, Str("y2")),
     color |-> Get(b, Str("c")),
     bgColor |-> Get(b, Str("bc")),
     extend |-> Translate(GRAPHIC_TRANSLATOR.extend, Get(b, Str("ex"))),
     style |-> Translate(GRAPHIC_TRANSLATOR.boxStyle, Get(b, Str("st"))),
     width |-> Get(b, Str("w")),
     text |-> Get(b, Str("t")),
     textSize |-> Get(b, Str("ts")),
     textColor |-> Get(b, Str("tc")),
     textVAlign |-> Get(b, Str("tva")),
     textHAlign |-> Get(b, Str("tha")),
     textWrap |-> Get(b, Str("tw"))]

BoxOk(b, indexes) ==
    /\ ResolveX(Get(b, Str("x1")), indexes).ok
    /\ ResolveX(Get(b, Str("x2")), indexes).ok
    /\ CodesOk(b, {"ex", "st"})

\* raw_graphic.get(draw_type, {}).values(): the items of one drawing type, in the
\* order their ids were first stored.
RawItems(raw_graphic, draw_type) ==
    IF DictHas(raw_graphic, JStr(Str(draw_type)))
    THEN DictValues(DictGet(raw_graphic, JStr(Str(draw_type))))
    ELSE <<>>

\* tv_extractor.py 86-139: the three lists of drawings parsed, or an exception.
ParseItems(ls, ns, bs, indexes) ==
    IF /\ \A i \in DOMAIN ls : LabelOk(ls[i], indexes)
       /\ \A i \in DOMAIN ns : LineOk(ns[i], indexes)
       /\ \A i \in DOMAIN bs : BoxOk(bs[i], indexes)
    THEN [ok |-> TRUE,
          val |-> [labels |-> [i \in DOMAIN ls |-> ParseLabel(ls[i], indexes)],
                   lines |-> [i \in DOMAIN ns |-> ParseLine(ns[i], indexes)],
                   boxes |-> [i \in DOMAIN bs |-> ParseBox(bs[i], indexes)],
                   tables |-> <<>>, polygons |-> <<>>,
                   horizLines |-> <<>>, horizHists |-> <<>>]]
    ELSE [ok |-> FALSE]

\* parse_graphic_data(raw_graphic, indexes): the parsed drawings, or an exception.
parse_graphic_data(raw_graphic, indexes) ==
    ParseItems(RawItems(raw_graphic, "dwglabels"), RawItems(raw_graphic, "dwglines"),
               RawItems(raw_graphic, "dwgboxes"), indexes)

\* ------------------------------------------------------ update interpreter

\* The state on_message reads and writes, and its extracted_update, threaded through
\* the handler: ohlc, ind (indicator_data), graw (graphics_raw), gidx
\* (graphics_indexes), u_ohlc / u_ind / u_gfx (extracted_update), raised (an
\* exception left the handler).

Raised(S) == [S EXCEPT !.raised = TRUE]

\* The leading elements of a loop over items that carry "v": the loop appends
\* e["v"] for each and stops with a KeyError or TypeError at the first that does not.
LeadingVs(items) ==
    LET bad == {i \in DOMAIN items : ~HasV(items[i])}
        n == IF bad = {} THEN Len(items) ELSE (CHOOSE i \in bad : \A j \in bad : i <= j) - 1
    IN [vs |-> [i \in 1..n |-> DictGet(items[i].v, Str("v"))], complete |-> bad = {}]

\* tv_extractor.py 410-412: the loop over prices; L holds the vectors it appends.
AppendPrices(S, L) ==
    [S EXCEPT !.ohlc = S.ohlc \o L.vs, !.u_ohlc = S.u_ohlc \o L.vs, !.raised = ~L.complete]

PricesIter(S, it) == IF ~it.ok THEN Raised(S) ELSE AppendPrices(S, LeadingVs(it.items))

\* tv_extractor.py 409: prices = data["$prices"].get("s", [])
PricesOf(S, pr) ==
    IF ~IsDict(pr) THEN Raised(S) ELSE PricesIter(S, Iter(GetOr(pr, Str("s"), JArr(<<>>))))

\* tv_extractor.py 408-412: the "$prices" part of the message.
PricesStage(S, data) ==
    IF ~DictHas(data.v, Str("$prices")) THEN S ELSE PricesOf(S, DictGet(data.v, Str("$prices")))

\* tv_extractor.py 419-422: the loop over val["st"]; L holds the vectors it appends.
AppendPoints(S, key, L) ==
    [S EXCEPT !.ind = DictSet(S.ind, key, DictGet(S.ind, key) \o L.vs),
              !.u_ind = IF L.vs = <<>> THEN S.u_ind
                        ELSE DictSet(S.u_ind, key,
                                     (IF DictHas(S.u_ind, key) THEN DictGet(S.u_ind, key)
                                      ELSE <<>>) \o L.vs),
              !.raised = ~L.complete]

PointsIter(S, key, it) ==
    IF ~it.ok THEN Raised(S) ELSE AppendPoints(S, key, LeadingVs(it.items))

\* tv_extractor.py 418: if key not in self.indicator_data: self.indicator_data[key] = []
WithSeries(S, key) ==
    IF DictHas(S.ind, key) THEN S ELSE [S EXCEPT !.ind = DictSet(S.ind, key, <<>>)]

\* tv_extractor.py 417-422: the "st" points of one study key.
PointsStage(S, key, val) ==
    IF ~(DictHas(val.v, Str("st")) /\ Truthy(DictGet(val.v, Str("st")))) THEN S
    ELSE PointsIter(WithSeries(S, key), key, Iter(DictGet(val.v, Str("st"))))

\* An erase that clears the whole store for "all" without a type and leaves the store
\* alone for "all" with a type.
EraseOneKeepType(store, erase) ==
    IF ~IsDict(erase) THEN [ok |-> FALSE, store |-> store]
    ELSE IF Get(erase, Str("action")) = JStr(Str("all"))
    THEN [ok |-> TRUE, store |-> IF Truthy(Get(erase, Str("type"))) THEN store ELSE <<>>]
    ELSE [ok |-> TRUE, store |-> store]

\* tv_extractor.py 435-441: one erase command on the store of one study.
EraseOne(store, erase) ==
    IF ~IsDict(erase) THEN [ok |-> FALSE, store |-> store]
    ELSE LET action == Get(erase, Str("action"))
             draw_type == Get(erase, Str("type"))
             id == Get(erase, Str("id"))
         IN IF action = JStr(Str("all"))
            THEN IF Truthy(draw_type)
                 THEN IF Hashable(draw_type)
                      THEN [ok |-> TRUE, store |-> DictSet(store, draw_type, <<>>)]
                      ELSE [ok |-> FALSE, store |-> store]
                 ELSE [ok |-> TRUE, store |-> <<>>]
            ELSE IF action = JStr(Str("one"))
            THEN IF ~Hashable(draw_type) THEN [ok |-> FALSE, store |-> store]
                 ELSE IF ~DictHas(store, draw_type) THEN [ok |-> TRUE, store |-> store]
                 ELSE IF ~Hashable(id) THEN [ok |-> FALSE, store |-> store]
                 ELSE [ok |-> TRUE,
                       store |-> DictSet(store, draw_type, DictPop(DictGet(store, draw_type), id))]
            ELSE [ok |-> TRUE, store |-> store]

RECURSIVE EraseAll(_, _, _)

\* After erase i left the result r: the next erase, unless an exception stopped it.
EraseNext(r, erases, i) == IF r.ok THEN EraseAll(r.store, erases, i + 1) ELSE r

\* tv_extractor.py 434: the erase commands from index i on, in listed order.
EraseAll(store, erases, i) ==
    IF i > Len(erases) THEN [ok |-> TRUE, store |-> store]
    ELSE EraseNext(EraseOne(store, erases[i]), erases, i)

\* tv_extractor.py 446: the items of one group's data, stored under their id.
RECURSIVE CreateItems(_, _, _, _)
CreateItems(store, draw_type, items, i) ==
    IF i > Len(items) THEN [ok |-> TRUE, store |-> store]
    ELSE IF ~(/\ IsDict(items[i])
              /\ DictHas(items[i].v, Str("id"))
              /\ Hashable(DictGet(items[i].v, Str("id"))))
    THEN [ok |-> FALSE, store |-> store]
    ELSE CreateItems(DictSet(store, draw_type,
                             DictSet(DictGet(store, draw_type),
                                     DictGet(items[i].v, Str("id")), items[i])),
                     draw_type, items, i + 1)

RECURSIVE CreateGroups(_, _, _, _)

GroupNext(r, draw_type, groups, i) ==
    IF r.ok THEN CreateGroups(r.store, draw_type, groups, i + 1) ELSE r

\* tv_extractor.py 446: for item in group.get("data", [])
GroupItems(store, draw_type, groups, i, it) ==
    IF ~it.ok THEN [ok |-> FALSE, store |-> store]
    ELSE GroupNext(CreateItems(store, draw_type, it.items, 1), draw_type, groups, i)

\* tv_extractor.py 445-446: the groups of one drawing type from index i on.
CreateGroups(store, draw_type, groups, i) ==
    IF i > Len(groups) THEN [ok |-> TRUE, store |-> store]
    ELSE GroupItems(store, draw_type, groups, i,
                    IF IsDict(groups[i]) THEN Iter(GetOr(groups[i], Str("data"), JArr(<<>>)))
                    ELSE [ok |-> FALSE, items |-> <<>>])

RECURSIVE CreateTypes(_, _, _)

TypeNext(r, create, i) == IF r.ok THEN CreateTypes(r.store, create, i + 1) ELSE r

\* tv_extractor.py 445: for group in groups
TypeGroups(store, draw_type, create, i, it) ==
    IF ~it.ok THEN [ok |-> FALSE, store |-> store]
    ELSE TypeNext(CreateGroups(store, draw_type, it.items, 1), create, i)

\* tv_extractor.py 444: if draw_type not in self.graphics_raw[key]: ... = {}
WithType(store, draw_type) ==
    IF DictHas(store, draw_type) THEN store ELSE DictSet(store, draw_type, <<>>)

\* tv_extractor.py 443-446: the drawing types of "create" from index i on.
CreateTypes(store, create, i) ==
    IF i > Len(create) THEN [ok |-> TRUE, store |-> store]
    ELSE TypeGroups(WithType(store, JStr(create[i].k)), JStr(create[i].k), create, i,
                    Iter(create[i].v))

\* tv_extractor.py 442-446: the creates, after the erases left the result e.
ApplyCreate(e, create) ==
    IF ~e.ok THEN e
    ELSE IF ~IsDict(create) THEN [ok |-> FALSE, store |-> e.store]
    ELSE CreateTypes(e.store, create.v, 1)

\* The erases applied to what the creates left.
EraseAfter(c, erases) == IF c.ok THEN EraseAll(c.store, erases, 1) ELSE c

\* graphicsCmds with the creates applied first and the erases after them.
ApplyCreateThenErase(store, graphics_cmds, eit) ==
    IF ~eit.ok THEN [ok |-> FALSE, store |-> store]
    ELSE EraseAfter(ApplyCreate([ok |-> TRUE, store |-> store],
                                GetOr(graphics_cmds, Str("create"), JObj(<<>>))),
                    eit.items)

ApplyErase(store, graphics_cmds, eit) ==
    IF ~eit.ok THEN [ok |-> FALSE, store |-> store]
    ELSE ApplyCreate(EraseAll(store, eit.items, 1),
                     GetOr(graphics_cmds, Str("create"), JObj(<<>>)))

\* tv_extractor.py 434-446: graphicsCmds applied to the store of one study: the
\* erases in listed order, then the creates.  ok is FALSE when an exception stopped it.
ApplyGraphicsCmds(store, graphics_cmds) ==
    IF ~IsDict(graphics_cmds) THEN [ok |-> FALSE, store |-> store]
    ELSE ApplyErase(store, graphics_cmds,
                    Iter(GetOr(graphics_cmds, Str("erase"), JArr(<<>>))))

\* get_indicator_graphics(study_id) on the state S.
get_indicator_graphics(S, study_id) ==
    parse_graphic_data(IF DictHas(S.graw, study_id) THEN DictGet(S.graw, study_id) ELSE <<>>,
                       S.gidx)

\* tv_extractor.py 449: extracted_update['graphics'][key] = the parsed graphics g.
Report(S, key, g) == IF g.ok THEN [S EXCEPT !.u_gfx = DictSet(S.u_gfx, key, g.val)] ELSE S

Reported(S, key) == Report(S, key, get_indicator_graphics(S, key))

\* The store of the study after the commands left the result a; the update gets the
\* study's graphics unless an exception stopped the commands.
Stored(S, key, a) ==
    IF a.ok THEN Reported([S EXCEPT !.graw = DictSet(S.graw, key, a.store)], key)
    ELSE [S EXCEPT !.graw = DictSet(S.graw, key, a.store)]

Applied(S, key, graphics_cmds) ==
    Stored(S, key, ApplyGraphicsCmds(DictGet(S.graw, key), graphics_cmds))

\* tv_extractor.py 433: if key not in self.graphics_raw: self.graphics_raw[key] = {}
WithStudy(S, key) ==
    IF DictHas(S.graw, key) THEN S ELSE [S EXCEPT !.graw = DictSet(S.graw, key, <<>>)]

\* tv_extractor.py 432: if graphics_cmds
WithCmds(S, key, graphics_cmds) ==
    IF ~Truthy(graphics_cmds) THEN S ELSE Applied(WithStudy(S, key), key, graphics_cmds)

\* A handler without the try block: a text that json.loads refuses raises out of
\* on_message.
LoadedOrRaise(S, key, r) ==
    IF ~r.ok THEN Raised(S)
    ELSE IF ~IsDict(r.val) THEN S
    ELSE WithCmds(S, key, Get(r.val, Str("graphicsCmds")))

\* tv_extractor.py 431: graphics_cmds = ns_data.get("graphicsCmds"), r being the
\* result of json.loads.
Loaded(S, key, r) ==
    IF ~r.ok \/ ~IsDict(r.val) THEN S ELSE WithCmds(S, key, Get(r.val, Str("graphicsCmds")))

\* tv_extractor.py 428-451: ns["d"] of one study key, inside the try block: whatever
\* fails is logged and the handler goes on with what was applied so far.
GraphicsStage(S, key, d) == Loaded(S, key, IF d.t = "str" THEN json_loads(d.v) ELSE Fail)

\* The index array replaced by whatever ns carries, "nochange" included.
WithIndexesAlways(S, ns) ==
    IF DictHas(ns, Str("indexes")) THEN [S EXCEPT !.gidx = DictGet(ns, Str("indexes"))]
    ELSE S

\* tv_extractor.py 426-427: the index array is replaced when ns carries one.
WithIndexes(S, ns) ==
    IF DictHas(ns, Str("indexes")) /\ DictGet(ns, Str("indexes")) # JStr(Str("nochange"))
    THEN [S EXCEPT !.gidx = DictGet(ns, Str("indexes"))]
    ELSE S

\* tv_extractor.py 428: if "d" in ns and ns["d"]
WithD(S, key, ns) ==
    IF DictHas(ns, Str("d")) /\ Truthy(DictGet(ns, Str("d")))
    THEN GraphicsStage(S, key, DictGet(ns, Str("d")))
    ELSE S

\* tv_extractor.py 424-451: the "ns" part of one study key.
NsStage(S, key, val) ==
    IF ~IsDict(Get(val, Str("ns"))) THEN S
    ELSE WithD(WithIndexes(S, Get(val, Str("ns")).v), key, Get(val, Str("ns")).v)

AfterPoints(S, key, val) == IF S.raised THEN S ELSE NsStage(S, key, val)

\* tv_extractor.py 416-451: one study key of the message.
StudyStage(S, key, val) == AfterPoints(PointsStage(S, key, val), key, val)

\* tv_extractor.py 414-451: the loop over data.items() from index i on.
RECURSIVE KeysStage(_, _, _)
KeysStage(S, items, i) ==
    IF i > Len(items) \/ S.raised THEN S
    ELSE IF ~IsDict(items[i].v) \/ ~StartsWith(items[i].k, Str("st"))
    THEN KeysStage(S, items, i + 1)
    ELSE KeysStage(StudyStage(S, items[i].k, items[i].v), items, i + 1)

\* One row of get_mapped_indicator_data: the values from index i on (i counts from 1,
\* enumerate from 0).
RECURSIVE MapRow(_, _, _, _)
MapRow(mapped_row, plot_names, row, i) ==
    IF i > Len(row) THEN mapped_row
    ELSE MapRow(DictSet(mapped_row,
                        IF i <= Len(plot_names) THEN plot_names[i]
                        ELSE Str("plot_") \o IntStr(i - 2),
                        row[i]),
                plot_names, row, i + 1)

\* tv_extractor.py 368: ["timestamp"] + list(indicator_metadata.get("plots", {}).values())
PlotNames(indicator_metadata) ==
    <<Str("timestamp")>>
    \o [i \in DOMAIN GetOr(indicator_metadata, Str("plots"), JObj(<<>>)).v |->
          GetOr(indicator_metadata, Str("plots"), JObj(<<>>)).v[i].v.v]

\* tv_extractor.py 369-376: every row of raw_data mapped.
MapRows(raw_data, plot_names) ==
    IF \A i \in DOMAIN raw_data : Iter(raw_data[i]).ok
    THEN [ok |-> TRUE,
          val |-> [i \in DOMAIN raw_data |->
                     JObj(MapRow(<<>>, plot_names, Iter(raw_data[i]).items, 1))]]
    ELSE [ok |-> FALSE]

\* get_mapped_indicator_data(study_id, indicator_metadata) on the indicator_data ind.
get_mapped_indicator_data(ind, study_id, indicator_metadata) ==
    MapRows(IF DictHas(ind, study_id) THEN DictGet(ind, study_id) ELSE <<>>,
            PlotNames(indicator_metadata))

RECURSIVE MapStage(_, _, _)

\* tv_extractor.py 457: extracted_update['indicators'][sid] = the mapped rows r.
Mapped(S, loaded, i, r) ==
    IF ~r.ok THEN Raised(S)
    ELSE MapStage([S EXCEPT !.u_ind = DictSet(S.u_ind, S.u_ind[i].k, r.val)], loaded, i + 1)

\* tv_extractor.py 455-457: the studies of the update from index i on, mapped when
\* their metadata is loaded.
MapStage(S, loaded, i) ==
    IF i > Len(S.u_ind) \/ S.raised THEN S
    ELSE IF ~DictHas(loaded, S.u_ind[i].k) THEN MapStage(S, loaded, i + 1)
    ELSE Mapped(S, loaded, i,
                get_mapped_indicator_data(S.ind, S.u_ind[i].k, DictGet(loaded, S.u_ind[i].k)))

NoUpdate == [ohlc |-> <<>>, indicators |-> <<>>, graphics |-> <<>>]

\* The record returned for a handler run: the new fields, whether an exception left
\* the handler, whether the callback was called and with which update, and what the
\* fields were at each call of the callback.
Outcome(S, err, called) ==
    [ohlc |-> S.ohlc, ind |-> S.ind, graw |-> S.graw, gidx |-> S.gidx,
     error_occurred |-> err, raised |-> S.raised, called |-> called, calls |-> S.calls,
     update |-> IF called
                THEN [ohlc |-> S.u_ohlc, indicators |-> S.u_ind, graphics |-> S.u_gfx]
                ELSE NoUpdate]

\* p[i] (i counts from 0) of the params of a message.
Index(p, i) ==
    IF p.t = "arr" /\ i < Len(p.v) THEN [ok |-> TRUE, val |-> p.v[i + 1]]
    ELSE IF p.t = "str" /\ i < Len(p.v) THEN [ok |-> TRUE, val |-> JStr(<<p.v[i + 1]>>)]
    ELSE [ok |-> FALSE]

\* tv_extractor.py 453: the callback is set and the update is not empty.
Emits(S, has_callback) ==
    /\ ~S.raised
    /\ has_callback
    /\ (S.u_ohlc # <<>> \/ S.u_ind # <<>> \/ S.u_gfx # <<>>)

\* The fields the subscriber finds when the callback runs.
Snapshot(S) == [ohlc |-> S.ohlc, ind |-> S.ind, graw |-> S.graw, gidx |-> S.gidx]

\* One call of self.on_data_callback while the handler is at S.
Called(S) == [S EXCEPT !.calls = Append(S.calls, Snapshot(S))]

\* tv_extractor.py 458: self.on_data_callback(extracted_update)
Delivered(S, err) == IF S.raised THEN Outcome(S, err, FALSE) ELSE Outcome(Called(S), err, TRUE)

\* tv_extractor.py 453-458: the dispatch of the update.
Dispatch(S, loaded, has_callback, err) ==
    IF Emits(S, has_callback) THEN Delivered(MapStage(S, loaded, 1), err)
    ELSE Outcome(S, err, FALSE)

\* A handler that calls the subscriber with the bars as soon as they are appended,
\* before the study keys are applied.
AfterPricesNotify(S, items) ==
    IF S.raised THEN S ELSE KeysStage(IF S.u_ohlc # <<>> THEN Called(S) ELSE S, items, 1)

AfterPrices(S, items) == IF S.raised THEN S ELSE KeysStage(S, items, 1)

\* tv_extractor.py 405-458: the update with the data mapping d = p[1].
OnData(S, d, loaded, has_callback, err) ==
    IF ~d.ok \/ ~IsDict(d.val) THEN Outcome(Raised(S), err, FALSE)
    ELSE Dispatch(AfterPrices(PricesStage(S, d.val), d.val.v), loaded, has_callback, err)

\* tv_extractor.py 404-458: a timescale_update / du message.
OnUpdate(S, p, loaded, has_callback, err) == OnData(S, Index(p, 1), loaded, has_callback, err)

\* The handler's state at its start.
Start(E) ==
    [ohlc |-> E.ohlc, ind |-> E.ind, graw |-> E.graw, gidx |-> E.gidx,
     u_ohlc |-> <<>>, u_ind |-> <<>>, u_gfx |-> <<>>, raised |-> FALSE, calls |-> <<>>]

\* tv_extractor.py 404-465: the branch for the message type m_type.
OnType(E, S, m_type, p) ==
    IF m_type \in {JStr(Str("timescale_update")), JStr(Str("du"))}
    THEN OnUpdate(S, p, E.loaded, E.has_callback, E.error_occurred)
    ELSE IF m_type = JStr(Str("critical_error"))
    THEN Outcome(S, TRUE, FALSE)
    ELSE IF m_type = JStr(Str("study_error"))
    THEN IF Index(p, 1).ok /\ Index(p, 3).ok
         THEN Outcome(S, TRUE, FALSE)
         ELSE Outcome(Raised(S), E.error_occurred, FALSE)
    ELSE Outcome(S, E.error_occurred, FALSE)

\* on_message(msg) on the fields E of the extractor.
on_message(E, msg) ==
    IF ~IsDict(msg) THEN Outcome(Start(E), E.error_occurred, FALSE)
    ELSE OnType(E, Start(E), Get(msg, Str("m")), GetOr(msg, Str("p"), JArr(<<>>)))

\* tv_extractor.py 408-412: self.ohlc when the handler, entered with the fields E
\* and the data mapping d = p[1], has run its loop over the prices.
PricesLoop(E, d) ==
    IF d.ok /\ IsDict(d.val) THEN PricesStage(Start(E), d.val).ohlc ELSE E.ohlc

\* self.ohlc when on_message(msg) stands between its loop over the prices and its
\* loop over the keys of data.
OhlcAfterPrices(E, msg) ==
    IF IsDict(msg) /\ Get(msg, Str("m")) \in {JStr(Str("timescale_update")), JStr(Str("du"))}
    THEN PricesLoop(E, Index(GetOr(msg, Str("p"), JArr(<<>>)), 1))
    ELSE E.ohlc

\* ------------------------------------------------------ session controller

\* tv_extractor.py 223-227: final_inputs = inputs.copy() is a shallow copy, so the
\* overlay of custom_inputs writes the "value" of the caller's own input dicts.
RECURSIVE Overlay(_, _, _)
Overlay(inputs, custom, i) ==
    IF i > Len(custom) THEN inputs
    ELSE LET k == custom[i].k
         IN Overlay(IF DictHas(inputs, k)
                    THEN DictSet(inputs, k,
                                 JObj(DictSet(DictGet(inputs, k).v, Str("value"), custom[i].v)))
                    ELSE inputs,
                    custom, i + 1)

\* indicator_metadata after create_study(study_id, indicator_metadata, custom_inputs).
MetaAfterStudy(meta, custom_inputs) ==
    IF Truthy(custom_inputs) /\ DictHas(meta.v, Str("inputs"))
    THEN JObj(DictSet(meta.v, Str("inputs"),
                      JObj(Overlay(DictGet(meta.v, Str("inputs")).v, custom_inputs.v, 1))))
    ELSE meta

\* tv_extractor.py 217-221 and 229-234: the inputs payload for the inputs final_inputs.
InputsPayload(meta, final_inputs) ==
    LET base == <<Pair(Str("text"), DictGet(meta.v, Str("script")))>>
                \o (IF DictHas(meta.v, Str("pineId"))
                    THEN <<Pair(Str("pineId"), DictGet(meta.v, Str("pineId")))>> ELSE <<>>)
                \o (IF DictHas(meta.v, Str("pineVersion"))
                    THEN <<Pair(Str("pineVersion"), DictGet(meta.v, Str("pineVersion")))>>
                    ELSE <<>>)
        Add(d, i) == DictSet(d, final_inputs[i].k,
                             JObj(<<Pair(Str("v"), Get(final_inputs[i].v, Str("value"))),
                                    Pair(Str("f"), GetOr(final_inputs[i].v, Str("isFake"),
                                                         JBool(FALSE))),
                                    Pair(Str("t"), Get(final_inputs[i].v, Str("type")))>>))
        F[i \in 0..Len(final_inputs)] == IF i = 0 THEN base ELSE Add(F[i - 1], i)
    IN JObj(F[Len(final_inputs)])

\* tv_extractor.py 217-234: the inputs payload of create_study.
StudyInputs(meta, custom_inputs) ==
    InputsPayload(meta, GetOr(MetaAfterStudy(meta, custom_inputs), Str("inputs"), JObj(<<>>)).v)

\* tv_extractor.py 236-238
StudyKind(meta) ==
    IF Get(meta, Str("type")) = JStr(Str("strategy"))
    THEN Str("StrategyScript@tv-scripting-101!")
    ELSE Str("Script@tv-scripting-101!")

\* The frames the controller's operations hand to send().
AuthFrame(token) == construct_message(JStr(Str("set_auth_token")), JArr(<<JStr(token)>>))

ChartFrame(cs) ==
    construct_message(JStr(Str("chart_create_session")), JArr(<<JStr(cs), JStr(<<>>)>>))

ResolveFrameOwnSession(cs, symbol, series_id) ==
    construct_message(JStr(Str("resolve_symbol")),
        JArr(<<JStr(Str("cs_000000000000")), JStr(series_id),
               JStr(<<"=">> \o JsonDumps(JObj(<<Pair(Str("symbol"), JStr(symbol)),
                                                Pair(Str("adjustment"), JStr(Str("splits")))>>)))>>))

ResolveFrame(cs, symbol, series_id) ==
    construct_message(JStr(Str("resolve_symbol")),
        JArr(<<JStr(cs), JStr(series_id),
               JStr(<<"=">> \o JsonDumps(JObj(<<Pair(Str("symbol"), JStr(symbol)),
                                                Pair(Str("adjustment"), JStr(Str("splits")))>>)))>>))

SeriesFrame(cs, series_id, timeframe, range) ==
    construct_message(JStr(Str("create_series")),
        JArr(<<JStr(cs), JStr(Str("$prices")), JStr(Str("s1")), JStr(series_id),
               JStr(timeframe), JInt(range)>>))

StudyFrame(cs, study_id, meta, custom_inputs) ==
    construct_message(JStr(Str("create_study")),
        JArr(<<JStr(cs), JStr(study_id), JStr(Str("st1")), JStr(Str("$prices")),
               JStr(StudyKind(meta)), StudyInputs(meta, custom_inputs)>>))

\* The string recv returns for each choice of frames, computed once.
Received == [fs \in AllInbound |-> Raw(fs)]

\* ----------------------------------------------------------------- bounds

\* Frames encoded in one run of the codec model.
MaxFrames == 2

\* Calls of recv in one run of the session model.
MaxRecv == 2

\* Ticks ingested in one run of the tick buffer model.
MaxTicks == 240

\* data_engine.py 27
TICK_BATCH_SIZE == 100

\* Calls of start_extractor one thread makes.
MaxStarts == 2

\* Calls of recv in one run of the interpreter model.
MaxGfxRecv == 3

\* The frames a caller of the operations may put on the wire.
MaxOps == 5

\* The time without inbound traffic after which a session counts as dead, in
\* ticks of ten seconds.
T_idle == 3

\* ------------------------------------------------------------------ state

VARIABLES
    \* the fields of the TradingViewDataExtractor
    token, chart_session, running, ws, ohlc, indicator_data, graphics_raw,
    graphics_indexes, error_occurred, loaded_indicators, on_data_callback,
    \* the socket: the frames written to it, in order
    wire,
    \* the subscriber: the update of the last call of on_data_callback
    event,
    \* the reader thread: its position in listen(), the entries of msgs not yet
    \* handled, the number of recv calls made
    r_pc, msgs, n_recv,
    \* what the reader did last: the server frames of the last recv (rx), the number
    \* of frames on the wire at that recv (mark), the frames the reader wrote since
    \* (echoed), the entry handled last with the fields before it (last)
    rx, mark, echoed, last,
    \* the control thread: its position in the main script, and the metadata dict
    \* it holds and passes to create_study
    c_pc, meta,
    \* what a thread other than the reader read last, and the time since the last
    \* inbound traffic
    seen, idle,
    \* data_engine: the global extractor_instance (0 for None, else the number of the
    \* instance), the extractors created, the threads calling start_extractor
    extractor_instance, instances, callers,
    \* data_engine: the tick buffer, the flusher threads started, the batches
    \* db.insert_ticks stored and those it raised on, the ticks ingested so far
    tick_buffer, flushers, inserted, failed, n_ticks,
    \* the codec model: the messages encoded, their frames, the decoded entries
    enc_msgs, enc_frames, dec_out

extractor == <<token, chart_session, running, ws, ohlc, indicator_data, graphics_raw,
               graphics_indexes, error_occurred, loaded_indicators, on_data_callback>>

reader == <<r_pc, msgs, n_recv, rx, mark, echoed, last>>

codec == <<enc_msgs, enc_frames, dec_out>>

engine == <<extractor_instance, instances, callers, tick_buffer, flushers, inserted, failed,
            n_ticks>>

vars == <<extractor, wire, event, reader, c_pc, meta, seen, idle, codec, engine>>

\* The fields on_message works on.
Fields ==
    [ohlc |-> ohlc, ind |-> indicator_data, graw |-> graphics_raw, gidx |-> graphics_indexes,
     error_occurred |-> error_occurred, loaded |-> loaded_indicators,
     has_callback |-> on_data_callback]

NoLast == [kind |-> "none"]

\* Nothing read yet by a thread other than the reader.
NotSeen == [at |-> "none"]

\* tv_extractor.py 157-173: the extractor after __init__, its chart session one of
\* ids; the caller holds the metadata as fetched.
Constructed(ids) ==
    /\ token \in Tokens
    /\ chart_session \in ids
    /\ meta = Meta1
    /\ running = FALSE
    /\ ws = "none"
    /\ ohlc = <<>>
    /\ indicator_data = <<>>
    /\ graphics_raw = <<>>
    /\ graphics_indexes = JArr(<<>>)
    /\ error_occurred = FALSE
    /\ loaded_indicators = <<>>
    /\ on_data_callback = TRUE
    /\ wire = <<>>
    /\ event = NoUpdate
    /\ msgs = <<>>
    /\ n_recv = 0
    /\ rx = <<>>
    /\ mark = 0
    /\ echoed = <<>>
    /\ last = NoLast
    /\ seen = NotSeen
    /\ idle = 0

CodecIdle == enc_msgs = <<>> /\ enc_frames = <<>> /\ dec_out = <<>>

\* The threads that call start_extractor.
Callers == {"t1", "t2"}

\* data_engine.py 27-29, 113: the module as imported, no call made yet.
EngineIdle ==
    /\ extractor_instance = 0
    /\ instances = <<>>
    /\ callers = [t \in Callers |-> [pc |-> "idle", ret |-> 0, n |-> 0]]
    /\ tick_buffer = <<>>
    /\ flushers = <<>>
    /\ inserted = <<>>
    /\ failed = <<>>
    /\ n_ticks = 0

Init == Constructed({SessionId}) /\ r_pc = "off" /\ c_pc = "connect" /\ CodecIdle /\ EngineIdle

\* ---------------------------------------------------------- control thread

\* send(m, p) of the frame msg: written when the socket is there and connected.
Send(msg) == wire' = IF ws = "open" THEN Append(wire, msg) ELSE wire

\* connect(): the socket is opened, running is set, the token is sent; the caller
\* goes on at then.
connect(then) ==
    /\ ws' = "open"
    /\ running' = TRUE
    /\ wire' = Append(wire, AuthFrame(token))
    /\ c_pc' = then
    /\ UNCHANGED <<engine, token, chart_session, ohlc, indicator_data, graphics_raw, graphics_indexes,
                   error_occurred, loaded_indicators, on_data_callback, event, reader, meta,
                   seen, idle, codec>>

\* An operation that only sends the frame msg.
Operation(msg, then) ==
    /\ Send(msg)
    /\ c_pc' = then
    /\ UNCHANGED <<engine, extractor, event, reader, meta, seen, idle, codec>>

\* create_study(study_id, meta, custom_inputs): the overlay writes the caller's
\* input dicts, the frame is sent, then the metadata, the caller's own dict, is
\* recorded.
CreateStudy(study_id, custom_inputs, then) ==
    /\ Send(StudyFrame(chart_session, study_id, meta, custom_inputs))
    /\ meta' = MetaAfterStudy(meta, custom_inputs)
    /\ loaded_indicators' = DictSet(loaded_indicators, study_id, meta')
    /\ c_pc' = then
    /\ UNCHANGED <<engine, token, chart_session, running, ws, ohlc, indicator_data, graphics_raw,
                   graphics_indexes, error_occurred, on_data_callback, event, reader, seen,
                   idle, codec>>

\* The main script.
Connect == c_pc = "connect" /\ connect("start")

\* threading.Thread(target=extractor.listen).start()
StartReader ==
    /\ c_pc = "start"
    /\ r_pc' = "loop"
    /\ c_pc' = "chart"
    /\ UNCHANGED <<engine, extractor, wire, event, msgs, n_recv, rx, mark, echoed, last, meta, seen, idle, codec>>

create_chart_session == c_pc = "chart" /\ Operation(ChartFrame(chart_session), "resolve")

resolve_symbol ==
    /\ c_pc = "resolve"
    /\ Operation(ResolveFrame(chart_session, Str("BINANCE:BTCUSDT"), Str("s1")), "series")

create_series ==
    /\ c_pc = "series"
    /\ Operation(SeriesFrame(chart_session, Str("s1"), Str("1D"), 10), "study")

\* create_study("st1", meta)
create_study == c_pc = "study" /\ CreateStudy(Str("st1"), JNull, "sleep")

\* A caller of the operations in any order: each public method is called whatever
\* was called before it.
CallConnect == c_pc = "api" /\ ws = "none" /\ connect("api")

CallChart == c_pc = "api" /\ Len(wire) < MaxOps /\ Operation(ChartFrame(chart_session), "api")

CallResolve ==
    /\ c_pc = "api"
    /\ Len(wire) < MaxOps
    /\ Operation(ResolveFrame(chart_session, Str("BINANCE:BTCUSDT"), Str("s1")), "api")

CallSeries ==
    /\ c_pc = "api"
    /\ Len(wire) < MaxOps
    /\ Operation(SeriesFrame(chart_session, Str("s1"), Str("1D"), 10), "api")

CallStudy ==
    /\ c_pc = "api"
    /\ Len(wire) < MaxOps
    /\ \E custom_inputs \in CustomInputs : CreateStudy(Str("st1"), custom_inputs, "api")

NextApi ==
    \/ CallConnect
    \/ CallChart
    \/ CallResolve
    \/ CallSeries
    \/ CallStudy

InitApi == Constructed(SessionIds) /\ r_pc = "off" /\ c_pc = "api" /\ CodecIdle /\ EngineIdle

SpecApi == InitApi /\ [][NextApi]_vars

\* ----------------------------------------------------------- reader thread

\* if isinstance(msg, dict) and msg.get("type") == "ping"
IsPing(msg) == IsDict(msg) /\ Get(msg, Str("type")) = JStr(Str("ping"))

\* recv() returns the frames fs and parse_messages splits them; an empty list
\* leaves the reader at the top of the loop.
Receive(inbound, max) ==
    /\ ws = "open"
    /\ n_recv < max
    /\ \E fs \in inbound :
          /\ msgs' = parse_messages(Received[fs])
          /\ rx' = fs
          /\ r_pc' = IF msgs' = <<>> THEN "loop" ELSE "for"
    /\ n_recv' = n_recv + 1
    /\ mark' = Len(wire)
    /\ echoed' = <<>>
    /\ idle' = 0
    /\ UNCHANGED <<engine, extractor, wire, event, last, c_pc, meta, seen, codec>>

\* listen(), top of the loop with running set: recv() is called and returns.
Recv(inbound, max) == r_pc = "loop" /\ running /\ Receive(inbound, max)

\* A loop that does not test running: the reader calls recv() again.
LoopWithoutTest ==
    /\ r_pc = "loop"
    /\ ~running
    /\ r_pc' = "recv"
    /\ UNCHANGED <<engine, extractor, wire, event, msgs, n_recv, rx, mark, echoed, last, c_pc, meta,
                   seen, idle, codec>>

\* listen(), top of the loop with running cleared: the thread ends.
LoopExit ==
    /\ r_pc = "loop"
    /\ ~running
    /\ r_pc' = "done"
    /\ UNCHANGED <<engine, extractor, wire, event, msgs, n_recv, rx, mark, echoed, last, c_pc, meta, seen, idle, codec>>

\* The place the reader goes on at with the entries rest left of msgs.
Resume(rest) == IF rest = <<>> THEN "loop" ELSE "for"

\* listen(), the end of one pass of `for msg in msgs`: the next entry, or back to
\* the top of the loop; an exception clears running and leaves the loop over msgs.
\* With wait, a call of the subscriber is a step of its own: the reader stays in
\* the call until the subscriber returns.
Advance(kind, pre, raised, called, calls, wait) ==
    /\ running' = IF raised THEN FALSE ELSE running
    /\ msgs' = IF raised THEN <<>> ELSE Tail(msgs)
    /\ r_pc' = IF wait /\ called /\ ~raised THEN "callback" ELSE Resume(msgs')
    /\ last' = [kind |-> kind, msg |-> Head(msgs), pre |-> pre,
                raised |-> raised, called |-> called, calls |-> calls]

\* _handle_heartbeat(data): the frame is written to the socket.
Echo(data) ==
    /\ wire' = IF data.t = "str" THEN Append(wire, prepend_header(data.v)) ELSE wire
    /\ echoed' = IF data.t = "str" THEN Append(echoed, prepend_header(data.v)) ELSE echoed
    /\ Advance("ping", Fields, data.t # "str", FALSE, <<>>, FALSE)
    /\ UNCHANGED <<engine, token, chart_session, ws, ohlc, indicator_data, graphics_raw,
                   graphics_indexes, error_occurred, loaded_indicators, on_data_callback,
                   event, n_recv, rx, mark, c_pc, meta, seen, idle, codec>>

\* The fields after on_message, entered with the fields pre, returned (or raised)
\* with the outcome out.
Deliver(pre, out, wait) ==
    /\ ohlc' = out.ohlc
    /\ indicator_data' = out.ind
    /\ graphics_raw' = out.graw
    /\ graphics_indexes' = out.gidx
    /\ error_occurred' = out.error_occurred
    /\ event' = IF out.called THEN out.update ELSE event
    /\ Advance("message", pre, out.raised, out.called, out.calls, wait)
    /\ UNCHANGED <<engine, token, chart_session, ws, loaded_indicators, on_data_callback, wire,
                   echoed, n_recv, rx, mark, c_pc, meta, seen, idle, codec>>

\* listen(), the body of `for msg in msgs` for a ping.
HandlePing ==
    /\ r_pc = "for"
    /\ IsPing(Head(msgs))
    /\ ws = "open"
    /\ Echo(Get(Head(msgs), Str("data")))

\* listen(), the body of `for msg in msgs` for any other entry.
HandleMessage ==
    /\ r_pc = "for"
    /\ ~IsPing(Head(msgs))
    /\ Deliver(Fields, on_message(Fields, Head(msgs)), FALSE)

Next ==
    \/ Connect
    \/ StartReader
    \/ create_chart_session
    \/ resolve_symbol
    \/ create_series
    \/ create_study
    \/ Recv(Inbound, MaxRecv)
    \/ LoopExit
    \/ HandlePing
    \/ HandleMessage

Spec == Init /\ [][Next]_vars

\* A connected extractor whose reader is in its loop, its loaded studies one of
\* studies.
Listening(studies) ==
    /\ token \in Tokens
    /\ chart_session = SessionId
    /\ meta = Meta1
    /\ running = TRUE
    /\ ws = "open"
    /\ ohlc = <<>>
    /\ indicator_data = <<>>
    /\ graphics_raw = <<>>
    /\ graphics_indexes = JArr(<<>>)
    /\ error_occurred = FALSE
    /\ loaded_indicators \in studies
    /\ on_data_callback = TRUE
    /\ wire = <<AuthFrame(token)>>
    /\ event = NoUpdate
    /\ msgs = <<>>
    /\ n_recv = 0
    /\ rx = <<>>
    /\ mark = 0
    /\ echoed = <<>>
    /\ last = NoLast
    /\ seen = NotSeen
    /\ idle = 0
    /\ r_pc = "loop"
    /\ c_pc = "sleep"
    /\ CodecIdle
    /\ EngineIdle

\* The interpreter alone: the reader receives graphics updates of one study; the
\* study is loaded or not.
InitInterp == Listening({<<>>, <<Pair(Str("st1"), Meta1)>>})

NextInterp ==
    \/ Recv(GfxInbound, MaxGfxRecv)
    \/ HandleMessage

SpecInterp == InitInterp /\ [][NextInterp]_vars

\* The reader alone on updates of every part: bars, points, graphics, parts that
\* do not decode; st1 not loaded, loaded, or loaded with two plots of one title.
InitLocal ==
    Listening({<<>>, <<Pair(Str("st1"), Meta1)>>, <<Pair(Str("st1"), Meta2)>>})

NextLocal ==
    \/ Recv(LocalInbound, MaxRecv)
    \/ HandleMessage

SpecLocal == InitLocal /\ [][NextLocal]_vars

\* The reader with a subscriber that takes its time: on_data_callback is
\* on_extractor_data, called by on_message in the reader thread; it hands the update
\* to emit_event and to the strategy engine and returns when both have returned.
ConsumerInbound ==
    {<<Hb(42)>>, <<F_bar>>, <<F_bar, Hb(7)>>, <<Hb(5), F_point>>, <<F_both>>, <<F_other>>}

\* listen(), the body of `for msg in msgs` for an entry that is no ping, up to the
\* call of the subscriber.
HandleMessageSlow ==
    /\ r_pc = "for"
    /\ ~IsPing(Head(msgs))
    /\ Deliver(Fields, on_message(Fields, Head(msgs)), TRUE)

\* on_extractor_data returns: on_message returns and the reader goes on.
CallbackReturn ==
    /\ r_pc = "callback"
    /\ r_pc' = Resume(msgs)
    /\ UNCHANGED <<engine, extractor, wire, event, msgs, n_recv, rx, mark, echoed, last, c_pc, meta, seen, idle, codec>>

\* on_message statement by statement, as another thread finds it: the handler
\* takes no lock, so a thread switch may fall between its loop over the prices and
\* its loop over the keys.
SnapInbound == {<<Hb(42)>>, <<F_bar>>, <<F_point>>, <<F_both>>, <<F_gfx>>, <<F_other>>}

\* on_message up to the end of `for p_item in prices`.
HandlePricesLoop ==
    /\ r_pc = "for"
    /\ ~IsPing(Head(msgs))
    /\ ohlc' = OhlcAfterPrices(Fields, Head(msgs))
    /\ r_pc' = "keys"
    /\ last' = [kind |-> "prices", msg |-> Head(msgs), pre |-> Fields,
                raised |-> FALSE, called |-> FALSE, calls |-> <<>>]
    /\ UNCHANGED <<engine, token, chart_session, running, ws, indicator_data, graphics_raw,
                   graphics_indexes, error_occurred, loaded_indicators, on_data_callback,
                   wire, event, msgs, n_recv, rx, mark, echoed, c_pc, meta, seen, idle,
                   codec>>

\* on_message from `for key, val in data.items()` to its end: what is left of the
\* run that began with the fields last.pre.
HandleKeysLoop ==
    /\ r_pc = "keys"
    /\ Deliver(last.pre, on_message(last.pre, Head(msgs)), FALSE)

\* The main thread reads extractor.ohlc, the indicator series and the graphics
\* while the listen thread runs (tradingview_extract.py 533-552).
Read ==
    /\ r_pc \notin {"off", "done"}
    /\ seen' = [at |-> r_pc,
                snap |-> Snapshot(Fields),
                pre |-> IF r_pc = "keys" THEN last.pre ELSE Fields,
                msg |-> IF r_pc = "keys" THEN Head(msgs) ELSE JNull]
    /\ UNCHANGED <<engine, extractor, wire, event, reader, c_pc, meta, idle, codec>>

NextSnapshot ==
    \/ Connect
    \/ StartReader
    \/ Recv(SnapInbound, MaxRecv)
    \/ HandlePing
    \/ HandlePricesLoop
    \/ HandleKeysLoop
    \/ Read

SpecSnapshot == Init /\ [][NextSnapshot]_vars

\* The reader alone on heartbeats and JSON messages, some of them with a field
\* "type" equal to "ping".
NextRouter ==
    \/ Recv(RouterInbound, MaxRecv)
    \/ HandlePing
    \/ HandleMessage
    \/ LoopExit

SpecRouter == InitInterp /\ [][NextRouter]_vars

\* The graphics of one study read through get_indicator_graphics: the store holds
\* one label, one line or one box, whose positions and style code are one of
\* RawPositions and RawStyles, and the index array is one of IndexArrays.
RawPositions == {JInt(0), JInt(1), JInt(2), JInt(-1), JInt(-3), JStr(Str("a")), JNull}

RawStyles == {JStr(Str("sol")), JStr(Str("zzz")), JNull}

IndexArrays == {JArr(<<>>), JArr(<<JInt(1000)>>), JArr(<<JInt(1000), JInt(2000)>>)}

\* A raw item: the fields whose value is not None.
RawItem(fields) == JObj(SelectSeq(fields, LAMBDA f : f.v # JNull))

RawLabel(x, st) ==
    RawItem(<<Pair(Str("id"), JStr(Str("L1"))), Pair(Str("x"), x), Pair(Str("y"), JInt(17)),
              Pair(Str("yl"), st), Pair(Str("st"), st)>>)

RawLine(x1, x2, st) ==
    RawItem(<<Pair(Str("id"), JInt(7)), Pair(Str("x1"), x1), Pair(Str("y1"), JInt(1)),
              Pair(Str("x2"), x2), Pair(Str("y2"), JInt(2)), Pair(Str("ex"), st),
              Pair(Str("st"), st)>>)

RawBox(x1, x2, st) ==
    RawItem(<<Pair(Str("id"), JInt(9)), Pair(Str("x1"), x1), Pair(Str("y1"), JInt(1)),
              Pair(Str("x2"), x2), Pair(Str("y2"), JInt(2)), Pair(Str("ex"), st),
              Pair(Str("st"), st)>>)

\* self.graphics_raw with the one item of the drawing type draw_type under st1.
StoreWith(draw_type, item) ==
    <<Pair(Str("st1"), <<Pair(JStr(Str(draw_type)), <<Pair(Get(item, Str("id")), item)>>)>>)>>

RawStores ==
    {StoreWith("dwglabels", RawLabel(x, st)) : x \in RawPositions, st \in RawStyles}
    \cup {StoreWith("dwglines", RawLine(x1, x2, JStr(Str("sol")))) :
             x1 \in RawPositions, x2 \in RawPositions}
    \cup {StoreWith("dwglines", RawLine(JInt(0), JInt(0), st)) : st \in RawStyles}
    \cup {StoreWith("dwgboxes", RawBox(x1, x2, JStr(Str("dot")))) :
             x1 \in RawPositions, x2 \in RawPositions}
    \cup {StoreWith("dwgboxes", RawBox(JInt(0), JInt(0), st)) : st \in RawStyles}

InitGraphic ==
    /\ token \in Tokens
    /\ chart_session = SessionId
    /\ meta = Meta1
    /\ running = TRUE
    /\ ws = "open"
    /\ ohlc = <<>>
    /\ indicator_data = <<>>
    /\ graphics_raw \in RawStores
    /\ graphics_indexes \in IndexArrays
    /\ error_occurred = FALSE
    /\ loaded_indicators = <<Pair(Str("st1"), Meta1)>>
    /\ on_data_callback = TRUE
    /\ wire = <<AuthFrame(token)>>
    /\ event = NoUpdate
    /\ msgs = <<>>
    /\ n_recv = 0
    /\ rx = <<>>
    /\ mark = 0
    /\ echoed = <<>>
    /\ last = NoLast
    /\ seen = NotSeen
    /\ idle = 0
    /\ r_pc = "loop"
    /\ c_pc = "sleep"
    /\ CodecIdle
    /\ EngineIdle

\* graphics = extractor.get_indicator_graphics(study_id) on the main thread: the
\* parsed drawings, or the exception.
ReadGraphics ==
    /\ seen.at = "none"
    /\ seen' = [at |-> "graphics", out |-> get_indicator_graphics(Fields, Str("st1"))]
    /\ UNCHANGED <<engine, extractor, wire, event, reader, c_pc, meta, idle, codec>>

NextGraphic == ReadGraphics

SpecGraphic == InitGraphic /\ [][NextGraphic]_vars

\* The session from connect to close, with a transport that may fail: the main
\* script to its last line, recv as a call the reader is blocked in.
SessionInbound == {<<Hb(42)>>, <<F_bar>>, <<F_bar, Hb(7)>>, <<F_noV>>}

\* connect(): create_connection raises; the exception is logged and raised again.
ConnectFails ==
    /\ c_pc = "connect"
    /\ c_pc' = "raised"
    /\ UNCHANGED <<engine, extractor, wire, event, reader, meta, seen, idle, codec>>

\* connect(): the socket is opened and running is set, then the write of the token
\* raises; the exception is logged and raised again.
ConnectAuthFails ==
    /\ c_pc = "connect"
    /\ ws' = "open"
    /\ running' = TRUE
    /\ c_pc' = "raised"
    /\ UNCHANGED <<engine, token, chart_session, ohlc, indicator_data, graphics_raw, graphics_indexes,
                   error_occurred, loaded_indicators, on_data_callback, wire, event, reader,
                   meta, seen, idle, codec>>

\* send(m, p) called by the control thread: self.ws.send(msg) raises and the
\* exception leaves the operation.
SendFails ==
    /\ c_pc \in {"chart", "resolve", "series", "study"}
    /\ ws = "open"
    /\ c_pc' = "raised"
    /\ UNCHANGED <<engine, extractor, wire, event, reader, meta, seen, idle, codec>>

\* extractor.running = False
Stop ==
    /\ c_pc = "sleep"
    /\ running' = FALSE
    /\ c_pc' = "close"
    /\ UNCHANGED <<engine, token, chart_session, ws, ohlc, indicator_data, graphics_raw,
                   graphics_indexes, error_occurred, loaded_indicators, on_data_callback,
                   wire, event, reader, meta, seen, idle, codec>>

\* if extractor.ws: extractor.ws.close()
Close ==
    /\ c_pc = "close"
    /\ ws' = IF ws = "none" THEN ws ELSE "closed"
    /\ c_pc' = "end"
    /\ UNCHANGED <<engine, token, chart_session, running, ohlc, indicator_data, graphics_raw,
                   graphics_indexes, error_occurred, loaded_indicators, on_data_callback,
                   wire, event, reader, meta, seen, idle, codec>>

\* listen(), `while self.running` with running set: the reader calls recv().
EnterRecv ==
    /\ r_pc = "loop"
    /\ running
    /\ r_pc' = "recv"
    /\ UNCHANGED <<engine, extractor, wire, event, msgs, n_recv, rx, mark, echoed, last, c_pc, meta,
                   seen, idle, codec>>

\* recv() returns frames.
RecvReturn == r_pc = "recv" /\ Receive(SessionInbound, MaxRecv)

\* recv() raises, the socket closed or the connection lost: the except clause of
\* listen clears running.
RecvError ==
    /\ r_pc = "recv"
    /\ running' = FALSE
    /\ r_pc' = "loop"
    /\ UNCHANGED <<engine, token, chart_session, ws, ohlc, indicator_data, graphics_raw,
                   graphics_indexes, error_occurred, loaded_indicators, on_data_callback,
                   wire, event, msgs, n_recv, rx, mark, echoed, last, c_pc, meta, seen, idle,
                   codec>>

\* _handle_heartbeat(data): self.ws.send raises, the socket closed or the write
\* failing; the except clause of listen clears running.
HandlePingFails ==
    /\ r_pc = "for"
    /\ IsPing(Head(msgs))
    /\ Advance("ping", Fields, TRUE, FALSE, <<>>, FALSE)
    /\ UNCHANGED <<engine, token, chart_session, ws, ohlc, indicator_data, graphics_raw,
                   graphics_indexes, error_occurred, loaded_indicators, on_data_callback,
                   wire, event, n_recv, rx, mark, echoed, c_pc, meta, seen, idle, codec>>

\* Ten seconds pass with the reader in recv() and nothing arriving: recv has no
\* timeout and listen reads no clock.
Tick ==
    /\ r_pc = "recv"
    /\ ws = "open"
    /\ idle <= T_idle
    /\ idle' = idle + 1
    /\ UNCHANGED <<engine, extractor, wire, event, reader, c_pc, meta, seen, codec>>

\* The steps of the listen thread.
Listen ==
    \/ EnterRecv
    \/ RecvReturn
    \/ RecvError
    \/ LoopExit
    \/ HandlePing
    \/ HandlePingFails
    \/ HandleMessage

NextSession ==
    \/ Connect
    \/ ConnectFails
    \/ ConnectAuthFails
    \/ StartReader
    \/ create_chart_session
    \/ resolve_symbol
    \/ create_series
    \/ create_study
    \/ SendFails
    \/ Stop
    \/ Close
    \/ Tick
    \/ Listen

\* recv() on a socket that was closed raises.
RecvClosed == ws # "open" /\ RecvError

\* The steps the listen thread takes by itself, needing nothing from the server.
Scheduled ==
    \/ EnterRecv
    \/ LoopExit
    \/ HandlePing
    \/ HandlePingFails
    \/ RecvClosed

\* on_message returns: weak fairness of HandleMessage, spelled out with the guard
\* of the action for its enabling condition.
HandlerReturns ==
    \/ []<>~(r_pc = "for" /\ ~IsPing(Head(msgs)))
    \/ []<><<HandleMessage>>_vars

\* The listen thread is a thread of its own: it is scheduled as long as it can
\* take a step.
SpecSession == Init /\ [][NextSession]_vars /\ WF_vars(Scheduled) /\ HandlerReturns

\* start_extractor() connects and starts the reader thread.
NextConsumer ==
    \/ Connect
    \/ StartReader
    \/ Recv(ConsumerInbound, MaxRecv)
    \/ HandlePing
    \/ HandleMessageSlow
    \/ CallbackReturn

SpecConsumer == Init /\ [][NextConsumer]_vars

\* ------------------------------------------------------------ data_engine model

\* The thread t goes on at pc.
GoTo(t, pc) == callers' = [callers EXCEPT ![t].pc = pc]

\* A call of start_extractor(), from start_websocket_thread or another caller.
CallStart(t) ==
    /\ callers[t].pc \in {"idle", "returned", "raised"}
    /\ callers[t].n < MaxStarts
    /\ callers' = [callers EXCEPT ![t].pc = "check", ![t].n = @ + 1]
    /\ UNCHANGED <<extractor, wire, event, reader, c_pc, meta, seen, idle, codec,
                   extractor_instance, instances, tick_buffer, flushers, inserted, failed,
                   n_ticks>>

\* data_engine.py 134-135: if extractor_instance is not None: return extractor_instance
CheckInstance(t) ==
    /\ callers[t].pc = "check"
    /\ callers' = [callers EXCEPT
                     ![t].pc = IF extractor_instance # 0 THEN "returned" ELSE "make",
                     ![t].ret = IF extractor_instance # 0 THEN extractor_instance ELSE @]
    /\ UNCHANGED <<extractor, wire, event, reader, c_pc, meta, seen, idle, codec,
                   extractor_instance, instances, tick_buffer, flushers, inserted, failed,
                   n_ticks>>

\* data_engine.py 137-149: the cookies are fetched, the extractor is constructed and
\* assigned to the global, its token is set.
MakeInstance(t) ==
    /\ callers[t].pc = "make"
    /\ instances' = Append(instances, [connected |-> FALSE, readers |-> 0])
    /\ extractor_instance' = Len(instances) + 1
    /\ GoTo(t, "connect")
    /\ UNCHANGED <<extractor, wire, event, reader, c_pc, meta, seen, idle, codec,
                   tick_buffer, flushers, inserted, failed, n_ticks>>

\* data_engine.py 151: extractor_instance.connect() returns.
ConnectInstance(t) ==
    /\ callers[t].pc = "connect"
    /\ instances' = [instances EXCEPT ![extractor_instance].connected = TRUE]
    /\ GoTo(t, "listen")
    /\ UNCHANGED <<extractor, wire, event, reader, c_pc, meta, seen, idle, codec,
                   extractor_instance, tick_buffer, flushers, inserted, failed, n_ticks>>

\* data_engine.py 151: extractor_instance.connect() raises (tv_extractor.py 198-200);
\* the exception leaves start_extractor.
ConnectInstanceFails(t) ==
    /\ callers[t].pc = "connect"
    /\ GoTo(t, "raised")
    /\ UNCHANGED <<extractor, wire, event, reader, c_pc, meta, seen, idle, codec,
                   extractor_instance, instances, tick_buffer, flushers, inserted, failed,
                   n_ticks>>

\* data_engine.py 152: threading.Thread(target=extractor_instance.listen).start()
StartListen(t) ==
    /\ callers[t].pc = "listen"
    /\ instances' = [instances EXCEPT ![extractor_instance].readers = @ + 1]
    /\ GoTo(t, "chart")
    /\ UNCHANGED <<extractor, wire, event, reader, c_pc, meta, seen, idle, codec,
                   extractor_instance, tick_buffer, flushers, inserted, failed, n_ticks>>

\* data_engine.py 153-155: extractor_instance.create_chart_session();
\* return extractor_instance
ReturnInstance(t) ==
    /\ callers[t].pc = "chart"
    /\ callers' = [callers EXCEPT ![t].pc = "returned", ![t].ret = extractor_instance]
    /\ UNCHANGED <<extractor, wire, event, reader, c_pc, meta, seen, idle, codec,
                   extractor_instance, instances, tick_buffer, flushers, inserted, failed,
                   n_ticks>>

start_extractor(t) ==
    \/ CheckInstance(t)
    \/ MakeInstance(t)
    \/ ConnectInstance(t)
    \/ ConnectInstanceFails(t)
    \/ StartListen(t)
    \/ ReturnInstance(t)

NextEngine == \E t \in Callers : CallStart(t) \/ start_extractor(t)

SpecEngine == Init /\ [][NextEngine]_vars

\* The numbers of feeds one message can carry.
FeedSizes == {40, 60}

\* The ticks numbered from a + 1 to a + k, in arrival order.
Ticks(a, k) == [i \in 1..k |-> a + i]

\* data_engine.py 62-110, on_message(message) with k feeds: under buffer_lock the
\* ticks are appended to tick_buffer and, the buffer at or above TICK_BATCH_SIZE, a
\* flusher thread is started.
Ingest ==
    /\ n_ticks < MaxTicks
    /\ \E k \in FeedSizes :
          /\ tick_buffer' = tick_buffer \o Ticks(n_ticks, k)
          /\ n_ticks' = n_ticks + k
          /\ flushers' = IF Len(tick_buffer') >= TICK_BATCH_SIZE
                         THEN Append(flushers, [pc |-> "start", to_insert |-> <<>>])
                         ELSE flushers
    /\ UNCHANGED <<extractor, wire, event, reader, c_pc, meta, seen, idle, codec,
                   extractor_instance, instances, callers, inserted, failed>>

\* data_engine.py 49-53, flush_tick_buffer in the flusher thread i: under
\* buffer_lock the buffer is taken and replaced by an empty list.
FlushTake(i) ==
    /\ flushers[i].pc = "start"
    /\ flushers' = [flushers EXCEPT ![i].pc = IF tick_buffer # <<>> THEN "insert" ELSE "end",
                                    ![i].to_insert = tick_buffer]
    /\ tick_buffer' = <<>>
    /\ UNCHANGED <<extractor, wire, event, reader, c_pc, meta, seen, idle, codec,
                   extractor_instance, instances, callers, inserted, failed, n_ticks>>

\* data_engine.py 54-56: db.insert_ticks(to_insert) returns.
FlushInsert(i) ==
    /\ flushers[i].pc = "insert"
    /\ inserted' = Append(inserted, flushers[i].to_insert)
    /\ flushers' = [flushers EXCEPT ![i].pc = "end"]
    /\ UNCHANGED <<extractor, wire, event, reader, c_pc, meta, seen, idle, codec,
                   extractor_instance, instances, callers, tick_buffer, failed, n_ticks>>

\* data_engine.py 54-58: db.insert_ticks(to_insert) raises; the exception is logged.
FlushInsertFails(i) ==
    /\ flushers[i].pc = "insert"
    /\ failed' = Append(failed, flushers[i].to_insert)
    /\ flushers' = [flushers EXCEPT ![i].pc = "end"]
    /\ UNCHANGED <<extractor, wire, event, reader, c_pc, meta, seen, idle, codec,
                   extractor_instance, instances, callers, tick_buffer, inserted, n_ticks>>

flush_tick_buffer(i) == FlushTake(i) \/ FlushInsert(i) \/ FlushInsertFails(i)

NextTicks == Ingest \/ \E i \in DOMAIN flushers : flush_tick_buffer(i)

SpecTicks == Init /\ [][NextTicks]_vars

\* ------------------------------------------------------------ codec model

\* construct_message(m, p) of one more message; its frame is appended to the stream.
Encode(m, p) ==
    /\ dec_out = <<>>
    /\ Len(enc_msgs) < MaxFrames
    /\ enc_msgs' = Append(enc_msgs, MsgDict(JStr(m), JArr(p)))
    /\ enc_frames' = Append(enc_frames, construct_message(JStr(m), JArr(p)))
    /\ UNCHANGED <<engine, dec_out, extractor, wire, event, reader, c_pc, meta, seen, idle>>

\* parse_messages of the frames received as one string.
Decode ==
    /\ dec_out = <<>>
    /\ enc_frames # <<>>
    /\ dec_out' = <<parse_messages(Concat(enc_frames))>>
    /\ UNCHANGED <<engine, enc_msgs, enc_frames, extractor, wire, event, reader, c_pc, meta, seen, idle>>

NextCodec ==
    \/ \E m \in CodecMethods, p \in CodecParams : Encode(m, p)
    \/ Decode

SpecCodec == Init /\ [][NextCodec]_vars

\* ------------------------------------------------------------ properties

\* What a message carries, read off the message itself.

\* p[1] of a "du" or "timescale_update" message when it is a dict, else the empty dict.
DataOf(msg) ==
    IF /\ IsDict(msg)
       /\ Get(msg, Str("m")) \in {JStr(Str("du")), JStr(Str("timescale_update"))}
       /\ Get(msg, Str("p")).t = "arr"
       /\ Len(Get(msg, Str("p")).v) >= 2
       /\ IsDict(Get(msg, Str("p")).v[2])
    THEN Get(msg, Str("p")).v[2].v
    ELSE <<>>

\* The price entries of a message, in listed order.
PriceEntries(msg) ==
    IF /\ DictHas(DataOf(msg), Str("$prices"))
       /\ IsDict(DictGet(DataOf(msg), Str("$prices")))
       /\ Get(DictGet(DataOf(msg), Str("$prices")), Str("s")).t = "arr"
    THEN Get(DictGet(DataOf(msg), Str("$prices")), Str("s")).v
    ELSE <<>>

\* The study keys of a message: the keys beginning with "st" whose value is a dict.
StudyKeys(msg) ==
    {DataOf(msg)[i].k : i \in {j \in DOMAIN DataOf(msg) :
                                 /\ StartsWith(DataOf(msg)[j].k, Str("st"))
                                 /\ IsDict(DataOf(msg)[j].v)}}

\* The point entries a message carries for one study key, in listed order.
PointEntries(msg, key) ==
    IF Get(DictGet(DataOf(msg), key), Str("st")).t = "arr"
    THEN Get(DictGet(DataOf(msg), key), Str("st")).v
    ELSE <<>>

\* The index arrays a message carries: ns.indexes of its study keys, "nochange" apart.
IndexUpdates(msg) ==
    {Get(Get(DictGet(DataOf(msg), key), Str("ns")), Str("indexes")) :
       key \in {k \in StudyKeys(msg) :
                  /\ IsDict(Get(DictGet(DataOf(msg), k), Str("ns")))
                  /\ DictHas(Get(DictGet(DataOf(msg), k), Str("ns")).v, Str("indexes"))
                  /\ Get(Get(DictGet(DataOf(msg), k), Str("ns")), Str("indexes"))
                       # JStr(Str("nochange"))}}

\* graphicsCmds of the study key of a message, JNull when it carries none.
CmdsOf(msg, key) ==
    IF /\ key \in StudyKeys(msg)
       /\ IsDict(Get(DictGet(DataOf(msg), key), Str("ns")))
       /\ Get(Get(DictGet(DataOf(msg), key), Str("ns")), Str("d")).t = "str"
       /\ json_loads(Get(Get(DictGet(DataOf(msg), key), Str("ns")), Str("d")).v).ok
       /\ IsDict(json_loads(Get(Get(DictGet(DataOf(msg), key), Str("ns")), Str("d")).v).val)
    THEN Get(json_loads(Get(Get(DictGet(DataOf(msg), key), Str("ns")), Str("d")).v).val,
             Str("graphicsCmds"))
    ELSE JNull

\* The erase commands of graphicsCmds, in listed order.
ErasesOf(cmds) ==
    IF IsDict(cmds) /\ Get(cmds, Str("erase")).t = "arr" THEN Get(cmds, Str("erase")).v
    ELSE <<>>

\* The items graphicsCmds creates for one drawing type, in listed order.
CreatedOf(cmds, draw_type) ==
    IF /\ IsDict(cmds)
       /\ IsDict(Get(cmds, Str("create")))
       /\ Get(Get(cmds, Str("create")), draw_type.v).t = "arr"
    THEN Concat([i \in DOMAIN Get(Get(cmds, Str("create")), draw_type.v).v |->
                   Get(Get(Get(cmds, Str("create")), draw_type.v).v[i], Str("data")).v])
    ELSE <<>>

\* The stored items of one drawing type of one study, as id/item pairs.
StoreOf(graw, key, draw_type) ==
    IF DictHas(graw, key) /\ DictHas(DictGet(graw, key), draw_type)
    THEN DictGet(DictGet(graw, key), draw_type)
    ELSE <<>>

\* The store holds exactly the items, each under its id, the last item of an id.
ExactlyKeyed(store, items) ==
    /\ \A i, j \in DOMAIN store : store[i].k = store[j].k => i = j
    /\ \A i \in DOMAIN store : \E j \in DOMAIN items : Get(items[j], Str("id")) = store[i].k
    /\ \A j \in DOMAIN items :
          /\ DictHas(store, Get(items[j], Str("id")))
          /\ \/ DictGet(store, Get(items[j], Str("id"))) = items[j]
             \/ \E k \in DOMAIN items :
                   k > j /\ Get(items[k], Str("id")) = Get(items[j], Str("id"))

AllHaveIds(items) ==
    \A j \in DOMAIN items : IsDict(items[j]) /\ DictHas(items[j].v, Str("id"))

DrawTypes == {JStr(Str("dwglabels")), JStr(Str("dwglines"))}

\* The frames a reader echoing every heartbeat of the frames fs writes, in order.
EchoesOf(fs) ==
    [i \in DOMAIN SelectSeq(fs, LAMBDA f : f.kind = "hb") |->
       prepend_header(SelectSeq(fs, LAMBDA f : f.kind = "hb")[i].payload)]

\* The decimal number between the two ~m~ of a frame, and the payload after them.
PrefixOf(f) == DecVal(SubSeq(f, 4, DigitsEnd(f, 4) - 1))

PayloadOf(f) == SubSeq(f, DigitsEnd(f, 4) + 3, Len(f))

HasWideChar(v) == v.t = "str" /\ \E i \in DOMAIN v.v : Utf8Len(v.v[i]) > 1

AuthMsg == MsgDict(JStr(Str("set_auth_token")), JArr(<<JStr(Str("tk"))>>))

\* C1: every frame construct_message produces is ~m~<n>~m~<P> where the decimal
\* number n is the length in bytes of P as sent on the wire (UTF-8), P being ASCII
\* because json.dumps escapes every non-ASCII character.
C1_PrefixIsByteLength ==
    \A i \in DOMAIN enc_frames :
       /\ DelimAt(enc_frames[i], 1) > 0
       /\ PrefixOf(enc_frames[i]) = Utf8ByteLen(PayloadOf(enc_frames[i]))
       /\ PayloadOf(enc_frames[i]) = JsonDumps(enc_msgs[i])

\* C1, its case: a message whose parameter holds non-ASCII characters was framed.
C1_Witness ==
    \E i \in DOMAIN enc_frames :
       /\ \E j \in DOMAIN Get(enc_msgs[i], Str("p")).v :
             HasWideChar(Get(enc_msgs[i], Str("p")).v[j])
       /\ PrefixOf(enc_frames[i]) = Utf8ByteLen(PayloadOf(enc_frames[i]))

\* C2: parse_messages applied to the concatenation of construct_message frames
\* returns the encoded messages, in order, whatever text their parameters hold.
C2_RoundTrip == dec_out # <<>> => dec_out[1] = enc_msgs

\* C3 as stated: the frame of set_auth_token with the parameter "tk" carries the
\* length 38.
C3_AuthFrame38 ==
    \A i \in DOMAIN enc_frames :
       enc_msgs[i] = AuthMsg
          => enc_frames[i] = Str("~m~38~m~{\"m\": \"set_auth_token\", \"p\": [\"tk\"]}")

\* C3: the frame of set_auth_token with the parameter "tk" is the payload
\* {"m": "set_auth_token", "p": ["tk"]} (", " and ": " as separators) behind the
\* header ~m~36~m~, 36 being the length of that payload.
C3_AuthFrame36 ==
    \A i \in DOMAIN enc_frames :
       enc_msgs[i] = AuthMsg
          => enc_frames[i] = Str("~m~36~m~{\"m\": \"set_auth_token\", \"p\": [\"tk\"]}")

\* C3, its case: set_auth_token with "tk" was framed, 36 characters of payload.
C3_Witness ==
    \E i \in DOMAIN enc_frames :
       /\ enc_msgs[i] = AuthMsg
       /\ Len(PayloadOf(enc_frames[i])) = 36
       /\ PrefixOf(enc_frames[i]) = 36

\* C4: once the reader is through the frames of a recv, it has written one echo,
\* the heartbeat payload behind its length header, for every heartbeat received,
\* in order.
C4_EveryHeartbeatEchoed ==
    (r_pc \in {"loop", "done"} /\ n_recv > 0) => echoed = EchoesOf(rx)

\* C5: while a heartbeat of the last recv waits for its echo, nothing but echoes
\* goes on the wire: the frames written since the recv are the echoes.
C5_EchoIsNextWrite ==
    (r_pc = "for" /\ \E i \in DOMAIN msgs : IsPing(msgs[i]))
       => SubSeq(wire, mark + 1, Len(wire)) = echoed

\* C6: a message with n price entries and k point entries for a study makes the
\* OHLC list exactly n longer and the study's list exactly k longer, the earlier
\* elements kept.
C6_GrowsByCarried ==
    last.kind = "message" =>
       /\ Len(ohlc) = Len(last.pre.ohlc) + Len(PriceEntries(last.msg))
       /\ SubSeq(ohlc, 1, Len(last.pre.ohlc)) = last.pre.ohlc
       /\ \A key \in StudyKeys(last.msg) :
             PointEntries(last.msg, key) # <<>> =>
                /\ DictHas(indicator_data, key)
                /\ Len(DictGet(indicator_data, key))
                     = (IF DictHas(last.pre.ind, key) THEN Len(DictGet(last.pre.ind, key))
                        ELSE 0) + Len(PointEntries(last.msg, key))

\* C7: the update handed to the callback holds only what the message changed: the
\* bars it carries, and for every study as many rows as it carries points.
C7_UpdateIsDelta ==
    (last.kind = "message" /\ last.called) =>
       /\ Len(event.ohlc) = Len(PriceEntries(last.msg))
       /\ \A i \in DOMAIN event.indicators :
             Len(event.indicators[i].v) = Len(PointEntries(last.msg, event.indicators[i].k))

\* C8: every x of the labels in a dispatched update is resolved against the index
\* array the session holds once the message is handled: a raw integer x within
\* the array is reported as index_array[x].
C8_ResolvedAgainstFinalIndexes ==
    (last.kind = "message" /\ last.called /\ graphics_indexes.t = "arr") =>
       \A i \in DOMAIN event.graphics :
          \A j \in DOMAIN event.graphics[i].v.labels :
             \A k \in DOMAIN StoreOf(graphics_raw, event.graphics[i].k, JStr(Str("dwglabels"))) :
                LET raw == StoreOf(graphics_raw, event.graphics[i].k, JStr(Str("dwglabels")))[k]
                IN (/\ raw.k = event.graphics[i].v.labels[j].id
                    /\ Get(raw.v, Str("x")).t = "int"
                    /\ Get(raw.v, Str("x")).v >= 0
                    /\ Get(raw.v, Str("x")).v < Len(graphics_indexes.v))
                   => event.graphics[i].v.labels[j].x
                        = graphics_indexes.v[Get(raw.v, Str("x")).v + 1]

\* C9: handling a message leaves graphics_indexes as it was, or replaces it by an
\* ns.indexes value of the message that is not "nochange"; a message with no such
\* value ("nochange", no indexes, prices only) leaves it as it was.
C9_IndexesKeptOrReplaced ==
    last.kind = "message" =>
       /\ graphics_indexes = last.pre.gidx \/ graphics_indexes \in IndexUpdates(last.msg)
       /\ (~last.raised /\ IndexUpdates(last.msg) # {})
             => graphics_indexes \in IndexUpdates(last.msg)

\* C9, its case: a message with indexes "nochange" was handled while the array held
\* values, and the array is still the same.
C9_Witness ==
    /\ last.kind = "message"
    /\ last.msg = F_nochange.msg
    /\ last.pre.gidx # JArr(<<>>)
    /\ graphics_indexes = last.pre.gidx

\* C10: after a message whose erase commands are all "all" of one drawing type T,
\* the store of T holds exactly the items the message creates for T, each under its
\* id (nothing when it creates none); a create on an empty store of T leaves exactly
\* the created items.
C10_EraseAllThenCreate ==
    last.kind = "message" =>
       \A draw_type \in DrawTypes :
          /\ (/\ ErasesOf(CmdsOf(last.msg, Str("st1"))) # <<>>
              /\ \A i \in DOMAIN ErasesOf(CmdsOf(last.msg, Str("st1"))) :
                    /\ IsDict(ErasesOf(CmdsOf(last.msg, Str("st1")))[i])
                    /\ Get(ErasesOf(CmdsOf(last.msg, Str("st1")))[i], Str("action"))
                         = JStr(Str("all"))
                    /\ Get(ErasesOf(CmdsOf(last.msg, Str("st1")))[i], Str("type")) = draw_type
              /\ AllHaveIds(CreatedOf(CmdsOf(last.msg, Str("st1")), draw_type)))
             => ExactlyKeyed(StoreOf(graphics_raw, Str("st1"), draw_type),
                             CreatedOf(CmdsOf(last.msg, Str("st1")), draw_type))
          /\ (/\ ErasesOf(CmdsOf(last.msg, Str("st1"))) = <<>>
              /\ StoreOf(last.pre.graw, Str("st1"), draw_type) = <<>>
              /\ CreatedOf(CmdsOf(last.msg, Str("st1")), draw_type) # <<>>
              /\ AllHaveIds(CreatedOf(CmdsOf(last.msg, Str("st1")), draw_type)))
             => ExactlyKeyed(StoreOf(graphics_raw, Str("st1"), draw_type),
                             CreatedOf(CmdsOf(last.msg, Str("st1")), draw_type))

\* C10, its case: labels were stored, and a message erasing all labels and creating
\* one was handled; the store holds that one label.
C10_Witness ==
    /\ last.kind = "message"
    /\ last.msg = G_replace.msg
    /\ Len(StoreOf(last.pre.graw, Str("st1"), JStr(Str("dwglabels")))) >= 2
    /\ Len(StoreOf(graphics_raw, Str("st1"), JStr(Str("dwglabels")))) = 1

\* The drawing types a store of one study holds, and those graphicsCmds creates.
StoreTypes(graw, key) ==
    IF DictHas(graw, key) THEN {DictGet(graw, key)[i].k : i \in DOMAIN DictGet(graw, key)}
    ELSE {}

CreateTypesOf(cmds) ==
    IF IsDict(cmds) /\ IsDict(Get(cmds, Str("create")))
    THEN {JStr(Get(cmds, Str("create")).v[i].k) : i \in DOMAIN Get(cmds, Str("create")).v}
    ELSE {}

IdsOf(store) == {store[i].k : i \in DOMAIN store}

CreatedIds(items) == {Get(items[j], Str("id")) : j \in DOMAIN items}

\* The last of the items created under an id.
LastCreated(items, id) ==
    items[CHOOSE j \in DOMAIN items :
            /\ Get(items[j], Str("id")) = id
            /\ \A k \in DOMAIN items : Get(items[k], Str("id")) = id => k <= j]

\* The erase command e names the item id of the drawing type.
ErasedBy(e, draw_type, id) ==
    \/ Get(e, Str("action")) = JStr(Str("all"))
       /\ (~Truthy(Get(e, Str("type"))) \/ Get(e, Str("type")) = draw_type)
    \/ /\ Get(e, Str("action")) = JStr(Str("one"))
       /\ Get(e, Str("type")) = draw_type
       /\ Get(e, Str("id")) = id

\* graphicsCmds whose erases are dicts and whose created items all carry an id.
WellFormedCmds(cmds) ==
    /\ IsDict(cmds)
    /\ \A i \in DOMAIN ErasesOf(cmds) : IsDict(ErasesOf(cmds)[i])
    /\ \A draw_type \in CreateTypesOf(cmds) : AllHaveIds(CreatedOf(cmds, draw_type))

\* C11: after a message with graphicsCmds the store of the study holds, for every
\* drawing type, the earlier items that no erase of the message names (erase all of
\* the type, erase all without type, erase one of that id and type) together with
\* every item the message creates: an item both erased and created is present, with
\* the created value, wherever the create stands in the text; an erase without type
\* leaves nothing but the created items, an erase one removes its id only.
C11_ErasesThenCreates ==
    (last.kind = "message" /\ WellFormedCmds(CmdsOf(last.msg, Str("st1")))) =>
       \A draw_type \in StoreTypes(last.pre.graw, Str("st1"))
                        \cup StoreTypes(graphics_raw, Str("st1"))
                        \cup CreateTypesOf(CmdsOf(last.msg, Str("st1"))) :
          LET pre == StoreOf(last.pre.graw, Str("st1"), draw_type)
              post == StoreOf(graphics_raw, Str("st1"), draw_type)
              items == CreatedOf(CmdsOf(last.msg, Str("st1")), draw_type)
              erases == ErasesOf(CmdsOf(last.msg, Str("st1")))
          IN /\ IdsOf(post)
                  = {id \in IdsOf(pre) :
                       ~\E i \in DOMAIN erases : ErasedBy(erases[i], draw_type, id)}
                    \cup CreatedIds(items)
             /\ \A id \in IdsOf(post) :
                   DictGet(post, id) = IF id \in CreatedIds(items) THEN LastCreated(items, id)
                                       ELSE DictGet(pre, id)

\* C11, its case: the labels L2 and L3 were stored and a message erasing L2 and
\* creating L2 was handled: L2 is there with the created value, L3 as it was.
C11_Witness ==
    /\ last.kind = "message"
    /\ last.msg = G_reone.msg
    /\ IdsOf(StoreOf(last.pre.graw, Str("st1"), JStr(Str("dwglabels"))))
         = {JStr(Str("L2")), JStr(Str("L3"))}
    /\ IdsOf(StoreOf(graphics_raw, Str("st1"), JStr(Str("dwglabels"))))
         = {JStr(Str("L2")), JStr(Str("L3"))}
    /\ DictGet(StoreOf(graphics_raw, Str("st1"), JStr(Str("dwglabels"))), JStr(Str("L2")))
         = Label("L2", JInt(5))

\* C12: for a handled message the callback ran at most once, it ran exactly when an
\* update was handed over, and the fields it found are the fields the message left:
\* every append, index replacement, erase and create of the message was applied
\* before it.
C12_CallbackAfterAllMutations ==
    last.kind = "message" =>
       /\ Len(last.calls) <= 1
       /\ last.called <=> Len(last.calls) = 1
       /\ \A i \in DOMAIN last.calls :
             last.calls[i] = [ohlc |-> ohlc, ind |-> indicator_data,
                              graw |-> graphics_raw, gidx |-> graphics_indexes]

\* C12, its case: a message with bars and points of two studies was handed to the
\* callback, after the bars and the points were appended.
C12_Witness ==
    /\ last.kind = "message"
    /\ last.msg = F_both.msg
    /\ Len(last.calls) = 1
    /\ Len(last.calls[1].ohlc) > Len(last.pre.ohlc)
    /\ last.calls[1].ind # last.pre.ind

MethodIs(msg, m) == IsDict(msg) /\ Get(msg, Str("m")) = JStr(Str(m))

\* C13: once a critical_error is handled the session is terminated: the error flag
\* is set and running is cleared.
C13_CriticalErrorTerminates ==
    (last.kind = "message" /\ MethodIs(last.msg, "critical_error"))
       => (error_occurred /\ ~running)

\* C14: a study_error, whatever the length of its params, leaves the handler without
\* an exception and the session running.
C14_StudyErrorKeepsSession ==
    (last.kind = "message" /\ MethodIs(last.msg, "study_error"))
       => (~last.raised /\ running)

\* C15: the fields a study_error leaves differ from the fields a critical_error
\* would have left from the same fields: the state tells the errored study from a
\* terminal error.
C15_StudyErrorDistinguished ==
    (last.kind = "message" /\ MethodIs(last.msg, "study_error") /\ ~last.raised)
       => <<ohlc, indicator_data, graphics_raw, graphics_indexes, error_occurred>>
            # <<on_message(last.pre, F_critical.msg).ohlc,
                on_message(last.pre, F_critical.msg).ind,
                on_message(last.pre, F_critical.msg).graw,
                on_message(last.pre, F_critical.msg).gidx,
                on_message(last.pre, F_critical.msg).error_occurred>>

\* ------------------------------------------------- the operations, any order

\* The text json.dumps starts the message of method m with.
MethodText(m) == Str("{\"m\": \"") \o Str(m) \o Str("\", \"p\": [")

\* The frame f carries a message of method m.
HasMethod(f, m) == StartsWith(PayloadOf(f), MethodText(m))

\* The frame f carries a message of method m whose first parameter is the text cs.
HasSession(f, m, cs) == StartsWith(PayloadOf(f), MethodText(m) \o <<"\"">> \o cs \o <<"\"">>)

SessionMethods == {"chart_create_session", "resolve_symbol", "create_series", "create_study"}

\* The frame of method later at place i has a frame of method earlier before it.
Preceded(i, later, earlier) ==
    HasMethod(wire[i], later) => \E j \in 1..(i - 1) : HasMethod(wire[j], earlier)

\* C16: on the wire set_auth_token is the first frame, a resolve_symbol frame is
\* written only after a chart_create_session frame, a create_series frame only after
\* a resolve_symbol frame and a create_study frame only after a create_series frame.
C16_HandshakeOrder ==
    /\ wire # <<>> => HasMethod(wire[1], "set_auth_token")
    /\ \A i \in DOMAIN wire :
          /\ Preceded(i, "resolve_symbol", "chart_create_session")
          /\ Preceded(i, "create_series", "resolve_symbol")
          /\ Preceded(i, "create_study", "create_series")

\* C17: a study is recorded in loaded_indicators if and only if its create_study
\* frame was written to the socket.
C17_RecordedIffSent ==
    DictHas(loaded_indicators, Str("st1"))
       <=> \E i \in DOMAIN wire : HasMethod(wire[i], "create_study")

\* C18: create_study leaves the caller's metadata, every value field of its inputs,
\* as it was before the call.
C18_CallerMetaUnchanged == meta = Meta1

C20_ReaderNotBlocked ==
    r_pc = "callback" => ~\E i \in DOMAIN msgs : IsPing(msgs[i])

\* ------------------------------------------------------- threads and state

\* The protocol state: the bars, the indicator series, the graphics store, the
\* index array and the loaded studies.
protocol == <<ohlc, indicator_data, graphics_raw, graphics_indexes, loaded_indicators>>

\* C21: while the reader thread is running, a step of the control thread leaves the
\* protocol state as it is: only the reader writes it.
C21_OnlyReaderMutates ==
    [][(c_pc' # c_pc /\ r_pc \notin {"off", "done"}) => UNCHANGED protocol]_vars

\* C22: what a thread other than the reader reads is the state before or after a
\* whole message: never the state in the middle of one message's mutations.
C22_ReadsSeeWholeMessages ==
    seen.at # "none"
       => seen.snap \in {Snapshot(seen.pre), Snapshot(on_message(seen.pre, seen.msg))}

\* ------------------------------------------------------ the end of a session

\* C23: once the close request is made (running cleared and the socket closed) the
\* reader loop eventually exits, and after it has exited no message is applied and
\* no event is dispatched.
C23_CloseEndsReader ==
    /\ (c_pc = "end") ~> (r_pc = "done")
    /\ [][r_pc = "done" => (r_pc' = "done" /\ UNCHANGED <<ohlc, indicator_data, graphics_raw,
                                                      graphics_indexes, error_occurred,
                                                      event, msgs, n_recv>>)]_vars

C23_Witness ==
    /\ c_pc = "end"
    /\ r_pc = "done"
    /\ ws = "closed"
    /\ ohlc # <<>>

\* C24: after a transport error that leaves an operation of the control thread
\* with an exception (a failed connect, a failed write in send) the running flag is
\* false.
C24_TransportErrorTerminates == c_pc = "raised" => ~running

\* C25: whenever the reader loop has exited, the socket has been closed.
C25_SocketReleasedOnExit == r_pc = "done" => ws = "closed"

\* C26: when no inbound traffic was seen for more than T_idle the session is
\* terminated: running is false.
C26_IdleTerminates == idle > T_idle => ~running

\* ------------------------------------------------------------ local errors

\* The value of a study key carries an ns.d that is a non-empty text json.loads
\* refuses.
MalformedD(val) ==
    /\ IsDict(val)
    /\ IsDict(Get(val, Str("ns")))
    /\ Get(Get(val, Str("ns")), Str("d")).t = "str"
    /\ Get(Get(val, Str("ns")), Str("d")).v # <<>>
    /\ ~json_loads(Get(Get(val, Str("ns")), Str("d")).v).ok

MalformedKeys(msg) == {k \in StudyKeys(msg) : MalformedD(DictGet(DataOf(msg), k))}

\* The value of a study key without its ns.d.
WithoutD(val) ==
    JObj(DictSet(val.v, Str("ns"), JObj(DictPop(Get(val, Str("ns")).v, Str("d")))))

\* The message msg without the ns.d texts json.loads refuses.
Skipped(msg) ==
    JObj(DictSet(msg.v, Str("p"),
         JArr([Get(msg, Str("p")).v EXCEPT ![2] =
                 JObj([i \in DOMAIN DataOf(msg) |->
                         IF DataOf(msg)[i].k \in MalformedKeys(msg)
                         THEN Pair(DataOf(msg)[i].k, WithoutD(DataOf(msg)[i].v))
                         ELSE DataOf(msg)[i]])])))

\* The graphics store holds for key what the store before held.
SameStore(before, after, key) ==
    /\ DictHas(after, key) <=> DictHas(before, key)
    /\ DictHas(after, key) => DictGet(after, key) = DictGet(before, key)

\* C27: an ns.d that is no JSON text is skipped and nothing else: the graphics store
\* of its study is left as it was, and the fields, the callback and the event are
\* those of the same message without that ns.d, with the reader still running.
C27_MalformedNsSkipped ==
    (last.kind = "message" /\ MalformedKeys(last.msg) # {})
       => LET same == on_message(last.pre, Skipped(last.msg))
          IN /\ \A k \in MalformedKeys(last.msg) : SameStore(last.pre.graw, graphics_raw, k)
             /\ Snapshot(Fields) = Snapshot(same)
             /\ last.raised = same.raised
             /\ last.called = same.called
             /\ last.called => event = same.update
             /\ ~same.raised => running

C27_Witness ==
    /\ last.kind = "message"
    /\ last.msg = L_badns.msg
    /\ DictHas(last.pre.graw, Str("st1"))
    /\ DictGet(last.pre.graw, Str("st1")) # <<>>
    /\ Len(ohlc) > Len(last.pre.ohlc)
    /\ indicator_data # last.pre.ind
    /\ DictHas(graphics_raw, Str("st2"))
    /\ last.called
    /\ running


\* C28: a timescale_update or du of whatever shape, an entry without v included,
\* leaves the handler without an exception, with the reader running and the later
\* entries of the same recv still to be handled.
C28_DecodeErrorsAreLocal ==
    (last.kind = "message" /\ (MethodIs(last.msg, "du") \/ MethodIs(last.msg, "timescale_update")))
       => /\ ~last.raised
          /\ running
          /\ r_pc \in {"for", "loop"}
          /\ r_pc = "loop" => (rx[Len(rx)].kind = "json" /\ rx[Len(rx)].msg = last.msg)


\* The message carries something to apply: a price entry, a point entry of a study or
\* graphicsCmds of a study.
Carries(msg) ==
    \/ PriceEntries(msg) # <<>>
    \/ \E key \in StudyKeys(msg) : PointEntries(msg, key) # <<>> \/ Truthy(CmdsOf(msg, key))

\* C29: with a subscriber set, a message that returns invokes the callback at most
\* once; it invokes it if it appended a bar or a point or changed the graphics store,
\* and only if it carries a bar, a point or graphicsCmds.
C29_EmittedIffApplied ==
    (last.kind = "message" /\ ~last.raised /\ on_data_callback)
       => /\ Len(last.calls) <= 1
          /\ last.called => Carries(last.msg)
          /\ (\/ ohlc # last.pre.ohlc
              \/ indicator_data # last.pre.ind
              \/ graphics_raw # last.pre.graw) => last.called


\* The name the mapping gives to column j (counted from 1) of a row.
NameOf(plot_names, j) ==
    IF j <= Len(plot_names) THEN plot_names[j] ELSE Str("plot_") \o IntStr(j - 2)

\* The record rec holds every value of the raw row under the name of its column.
HoldsRow(rec, row, plot_names) ==
    /\ rec.t = "obj"
    /\ Len(rec.v) = Len(row.v)
    /\ \A j \in DOMAIN row.v :
          /\ DictHas(rec.v, NameOf(plot_names, j))
          /\ DictGet(rec.v, NameOf(plot_names, j)) = row.v[j]

\* C30: in the event of a message, the rows of a study with loaded metadata are
\* records that hold all the values of their raw rows, each under the name of its
\* column, and the rows of a study without metadata are the raw vectors.
C30_MappedRecordHoldsRow ==
    (last.kind = "message" /\ last.called)
       => \A i \in DOMAIN event.indicators :
             IF DictHas(loaded_indicators, event.indicators[i].k)
             THEN \A n \in DOMAIN event.indicators[i].v :
                     HoldsRow(event.indicators[i].v[n],
                              DictGet(indicator_data, event.indicators[i].k)[n],
                              PlotNames(DictGet(loaded_indicators, event.indicators[i].k)))
             ELSE \A n \in DOMAIN event.indicators[i].v : event.indicators[i].v[n].t = "arr"


\* -------------------------------------------------------- graphics positions

\* The position the rule gives for the raw value x: the entry of the index array
\* when x is an index into it, x itself otherwise.
Position(x, indexes) ==
    IF x.t = "int" /\ x.v >= 0 /\ x.v < Len(indexes.v) THEN indexes.v[x.v + 1] ELSE x

\* The position p read back for the raw value x: any position is accepted for a
\* negative integer, the position of the rule for every other value.
Resolved(p, x, indexes) == (x.t = "int" /\ x.v < 0) \/ p = Position(x, indexes)

\* The code c read back for the raw code st of a table: the name of the table for a
\* code it holds, the code itself otherwise.
Styled(c, st, table) ==
    c = IF st.t = "str" /\ DictHas(table, st.v) THEN JStr(DictGet(table, st.v)) ELSE st

\* C31: reading the graphics of a store returns a result, whatever the raw
\* positions and the index array; each position that is not a negative integer is
\* the entry of the index array or the raw value, and each style code is translated
\* or returned as it is.
C31_PositionsResolved ==
    seen.at = "graphics" =>
       /\ seen.out.ok
       /\ \A i \in DOMAIN seen.out.val.labels :
             LET l == RawItems(DictGet(graphics_raw, Str("st1")), "dwglabels")[i]
             IN /\ Resolved(seen.out.val.labels[i].x, Get(l, Str("x")), graphics_indexes)
                /\ Styled(seen.out.val.labels[i].style, Get(l, Str("st")),
                          GRAPHIC_TRANSLATOR.labelStyle)
       /\ \A i \in DOMAIN seen.out.val.lines :
             LET l == RawItems(DictGet(graphics_raw, Str("st1")), "dwglines")[i]
             IN /\ Resolved(seen.out.val.lines[i].x1, Get(l, Str("x1")), graphics_indexes)
                /\ Resolved(seen.out.val.lines[i].x2, Get(l, Str("x2")), graphics_indexes)
                /\ Styled(seen.out.val.lines[i].style, Get(l, Str("st")),
                          GRAPHIC_TRANSLATOR.lineStyle)
       /\ \A i \in DOMAIN seen.out.val.boxes :
             LET b == RawItems(DictGet(graphics_raw, Str("st1")), "dwgboxes")[i]
             IN /\ Resolved(seen.out.val.boxes[i].x1, Get(b, Str("x1")), graphics_indexes)
                /\ Resolved(seen.out.val.boxes[i].x2, Get(b, Str("x2")), graphics_indexes)
                /\ Styled(seen.out.val.boxes[i].style, Get(b, Str("st")),
                          GRAPHIC_TRANSLATOR.boxStyle)


\* C32: the graphicsCmds of a study are applied as a whole or not at all: after a
\* message that carries them, the store of the study is what it was before the
\* message, or the subscriber was called with the graphics of the study.
C32_CommandsAllOrNothing ==
    (last.kind = "message" /\ ~last.raised)
       => \A key \in StudyKeys(last.msg) :
             Truthy(CmdsOf(last.msg, key))
                => \/ SameStore(last.pre.graw, graphics_raw, key)
                   \/ last.called /\ DictHas(event.graphics, key)


\* ------------------------------------------------------------------ routing

\* The JSON messages among the frames fs.
JsonMessages(fs) == {fs[i].msg : i \in {j \in DOMAIN fs : fs[j].kind = "json"}}

\* C33: the frames the reader wrote since the recv are echoes of the heartbeat
\* frames of that recv, in order; an entry handled as a ping is none of its JSON
\* messages; and after a JSON message the reader is running.
C33_OnlyHeartbeatsEchoed ==
    /\ Len(echoed) <= Len(EchoesOf(rx))
    /\ echoed = SubSeq(EchoesOf(rx), 1, Len(echoed))
    /\ last.kind = "ping" => last.msg \notin JsonMessages(rx)
    /\ (last.kind # "none" /\ last.msg \in JsonMessages(rx)) => running


\* ----------------------------------------------------------- start_extractor

\* C34: at most one extractor has been created, and every call of start_extractor
\* that returned gave back an extractor that is connected and has a listen thread.
C34_OneConnectedExtractor ==
    /\ Len(instances) <= 1
    /\ \A t \in Callers :
          callers[t].pc = "returned"
             => /\ instances[callers[t].ret].connected
                /\ instances[callers[t].ret].readers >= 1


\* -------------------------------------------------------------- tick buffer

RECURSIVE Flat(_)
\* The ticks of the batches bs, batch after batch.
Flat(bs) == IF bs = <<>> THEN <<>> ELSE Head(bs) \o Flat(Tail(bs))

\* The ticks a flusher thread holds between taking the buffer and the insert.
Held == Flat([i \in DOMAIN flushers |->
                 IF flushers[i].pc = "insert" THEN flushers[i].to_insert ELSE <<>>])

\* The number of places the tick n stands at in the sequence s.
Places(s, n) == Cardinality({i \in DOMAIN s : s[i] = n})

\* C35: every tick ingested is in the buffer, held by a flusher thread about to
\* insert it, or stored by db.insert_ticks, at one place and no more; no batch is
\* dropped by a failed insert; and every stored batch is in arrival order.
C35_TicksStoredOnce ==
    /\ \A n \in 1..n_ticks : Places(tick_buffer \o Held \o Flat(inserted), n) = 1
    /\ failed = <<>>
    /\ \A b \in DOMAIN inserted :
          \A i \in 1..(Len(inserted[b]) - 1) : inserted[b][i] < inserted[b][i + 1]

====
